---- MODULE Spec2Model ----
(***************************************************************************)
(* Virtual XR outputs of the modesetting driver                            *)
(* (hw/xfree86/drivers/video/modesetting/drmmode_xr_virtual.c).            *)
(*                                                                         *)
(* The state is the driver's list of virtual outputs (ms->xr_virtual_      *)
(* outputs), the XR-Manager control output, the kernel's table of          *)
(* registered framebuffers and the counts of live buffer objects, CPU      *)
(* mappings and pixmaps.  Every handler of the driver is one action; the   *)
(* outcome of each call into the host server, the kernel or the GPU stack  *)
(* is an input of the action.                                              *)
(*                                                                         *)
(* Spec runs the handlers on one output name for runs of any length;       *)
(* SpecPair runs them on two output names for runs of at most MaxOps       *)
(* requests.  SpecLife repeats the initialisation calls at any time,       *)
(* SpecProps sends every kind of property write, and SpecPower adds the    *)
(* activity/power controller and the passing of time (SpecPowerFair with   *)
(* a fair inactivity timer).  SpecTeardown lets the host destroy an output *)
(* on its own, and SpecShare runs two outputs created with the default     *)
(* size through MaxShareOps requests; SpecAlloc runs one such output       *)
(* through MaxOps requests.  SpecFrame creates, deletes and resizes two    *)
(* outputs, and SpecCrtc calls the power, cursor and gamma callbacks of    *)
(* the CRTC of one output.                                                 *)
(***************************************************************************)
EXTENDS Integers, Sequences, FiniteSets, TLC

(***************************************************************************)
(* Program constants                                                       *)
(***************************************************************************)
MinDim == 64
MaxDim == 16384
MinRefresh == 1
MaxRefresh == 1000
DefaultWidth == 1920
DefaultHeight == 1080
DefaultRefresh == 60

XR_MANAGER_OUTPUT_NAME == "XR-Manager"
CREATE_XR_OUTPUT_PROPERTY == "CREATE_XR_OUTPUT"
DELETE_XR_OUTPUT_PROPERTY == "DELETE_XR_OUTPUT"
XR_WIDTH_PROPERTY == "XR_WIDTH"
XR_HEIGHT_PROPERTY == "XR_HEIGHT"
XR_REFRESH_PROPERTY == "XR_REFRESH"
XR_MODES_PROPERTY == "XR_MODES"

(***************************************************************************)
(* Bounds of the model                                                     *)
(***************************************************************************)
\* Framebuffer identifiers the kernel can hand out are 1..MaxFbId.
MaxFbId == 2

\* Property writes and mode-sets handled in one run with two output names.
MaxOps == 2

\* Requests handled in one run of two default-sized outputs.
MaxShareOps == 3

\* Output names a client writes in a command; "" is the empty name.
Names == {"XR-0", "XR-1"}
OneName == {"XR-0"}

\* Widths, heights and refresh rates a client writes: each set holds values
\* inside and outside the documented bounds.
WidthValues == {63, 2560}
HeightValues == {16385}
RefreshValues == {0, 1000}

\* The decimal text of a natural number, as the sequence of its digits.
RECURSIVE Text(_)
Text(n) == IF n < 10 THEN <<n>> ELSE Text(n \div 10) \o <<n % 10>>

\* A command payload is the sequence of its ':'-separated fields: the name,
\* then the decimal text of each number.
CreatePayloads(names) ==
    {<<n>> : n \in names \cup {""}}
    \cup {<<n, Text(63), Text(1080), Text(60)>> : n \in names}
\* A create command with dimensions other than the initial ones.
SizedPayloads(names) == {<<n, Text(2560), Text(1080), Text(1000)>> : n \in names}
\* Create commands without a refresh rate: "<n>:1280:720", and
\* "<n>:4294969216:1080", whose width is 2^32 + 1920.
PlainPayloads(names) ==
    {<<n, Text(1280), Text(720)>> : n \in names}
    \cup {<<n, <<4, 2, 9, 4, 9, 6, 9, 2, 1, 6>>, Text(1080)>> : n \in names}
DeletePayloads(names) == {<<n>> : n \in names} \cup {<<"XR-0", Text(1920)>>}

\* Modes the host can set on a virtual CRTC (NoMode is a NULL mode).
\* XR_MODES strings, as the numbers of each '|'-separated token:
\* "1280:720:60|63:720:60" and "1280:720".
ModesValues == {<< <<1280, 720, 60>>, <<63, 720, 60>> >>, << <<1280, 720>> >>}

NoMode == <<0, 0>>
ModeDims == {<<1920, 1080>>, <<2560, 1080>>}

\* Position and rotation the host passes with a mode.
Placement(mode) ==
    IF mode = <<1920, 1080>>
    THEN [x |-> 0, y |-> 0, rotation |-> "Rotate_0"]
    ELSE [x |-> 1920, y |-> 1080, rotation |-> "Rotate_90"]

VARIABLES
    xr_virtual_outputs,   \* ms->xr_virtual_outputs, head of the list first
    xr_manager_output,    \* ms->xr_manager_output
    kernel_fbs,           \* framebuffer ids registered with the kernel
    live,                 \* live buffer objects, CPU mappings and pixmaps
    lastOp,               \* the handler that ran last, its arguments and result
    deleted,              \* the names a delete command has removed so far
    last_access,          \* per output name, the time since its framebuffer id was last read
    nops                  \* requests counted by the runs of bounded length

vars == <<xr_virtual_outputs, xr_manager_output, kernel_fbs, live, lastOp, deleted,
          last_access, nops>>

FbIds == 1..MaxFbId

(***************************************************************************)
(* Records                                                                 *)
(***************************************************************************)
\* drmmode_bo after memset(0)
ZeroBo == [gbm |-> FALSE, dumb |-> FALSE, mapped |-> FALSE, width |-> 0, height |-> 0]

NoManager == [exists |-> FALSE]
NoVout == [name |-> "<null>"]

InRange_AcceptsBelowMin(width, height, refresh) ==
    /\ width >= MinDim - 1 /\ width <= MaxDim
    /\ height >= MinDim /\ height <= MaxDim
    /\ refresh >= MinRefresh /\ refresh <= MaxRefresh

InRange(width, height, refresh) ==
    /\ width >= MinDim /\ width <= MaxDim
    /\ height >= MinDim /\ height <= MaxDim
    /\ refresh >= MinRefresh /\ refresh <= MaxRefresh

\* The walk along the next pointers that stops at the first record called
\* name: its index, 0 when the walk reaches the end.
FirstNamed(list, name) ==
    IF \E i \in DOMAIN list : list[i].name = name
    THEN CHOOSE i \in DOMAIN list :
             /\ list[i].name = name
             /\ \A j \in 1..(i - 1) : list[j].name # name
    ELSE 0

\* A lookup that starts the walk at the second record.
Find_SkipsHead(list, name) ==
    IF \E i \in DOMAIN list : i > 1 /\ list[i].name = name
    THEN CHOOSE i \in DOMAIN list :
             /\ i > 1 /\ list[i].name = name
             /\ \A j \in 2..(i - 1) : list[j].name # name
    ELSE 0

\* A lookup that takes strcmp's non-zero result for a match.
Find_Inverted(list, name) ==
    IF \E i \in DOMAIN list : list[i].name # name
    THEN CHOOSE i \in DOMAIN list :
             /\ list[i].name # name
             /\ \A j \in 1..(i - 1) : list[j].name = name
    ELSE 0

drmmode_xr_find_virtual_output(list, name) == FirstNamed(list, name)

Lookup(list, name) ==
    LET i == drmmode_xr_find_virtual_output(list, name)
    IN  IF i = 0 THEN NoVout ELSE list[i]

\* An unlink that ends the list at the predecessor, losing the successors.
RemoveAt_CutsTail(list, i) ==
    [j \in 1..(i - 1) |-> list[j]]

\* An unlink that has no case for the head of the list.
RemoveAt_NotHead(list, i) ==
    IF i = 1
    THEN list
    ELSE [j \in 1..(Len(list) - 1) |-> IF j < i THEN list[j] ELSE list[j + 1]]

\* Unlinks record i: prev->next, or the list head, takes its successor.
RemoveAt(list, i) ==
    [j \in 1..(Len(list) - 1) |-> IF j < i THEN list[j] ELSE list[j + 1]]

(***************************************************************************)
(* Mode list published on the RandR output                                 *)
(***************************************************************************)
common_widths == <<1920, 2560, 3840>>
common_heights == <<1080, 1440, 2160>>

RRMode(w, h, r, width, height) ==
    [width |-> w, height |-> h, refresh |-> r,
     preferred |-> (w = width /\ h = height)]

\* The modes handed to RROutputSetModes: the record's custom modes when it
\* has any, else the common resolutions at the given refresh; the mode whose
\* size is (width, height) is flagged preferred.
drmmode_xr_virtual_set_modes(modes, width, height, refresh) ==
    IF modes # <<>>
    THEN [k \in 1..Len(modes) |->
             RRMode(modes[k].width, modes[k].height, modes[k].refresh, width, height)]
    ELSE [k \in 1..(Len(common_widths) * Len(common_heights)) |->
             RRMode(common_widths[((k - 1) \div Len(common_heights)) + 1],
                    common_heights[((k - 1) % Len(common_heights)) + 1],
                    refresh, width, height)]

(***************************************************************************)
(* Off-screen framebuffer allocator                                        *)
(***************************************************************************)
\* What the kernel, the GPU stack and the host answer during one allocator
\* call.  The steps run in sequence and all but two return at their first
\* failure, so an environment names the one step that fails (fail) and says
\* apart how the two steps end that the allocator falls back from:
\*   gbm_ok  the GBM branch yields a buffer: glamor and a GBM device are
\*           there (drmmode->glamor && drmmode->gbm) and gbm_bo_create succeeds;
\*   egl_ok  egl_create_textured_pixmap_from_gbm_bo succeeds.
\* fb is what drmModeAddFB hands out: any identifier that is not registered at
\* that moment (so the identifier of a removed framebuffer can come back), or
\* 0 when the import fails.
AllocSteps == {"none", "dumb", "map", "pixmap", "pixmap2", "header"}

\* An answer that is never asked for has one value in an environment.
CanonicalEnv(e) ==
    /\ ~e.gbm_ok => ~e.egl_ok /\ e.fail # "pixmap"
    /\ e.gbm_ok => e.fail \notin {"dumb", "map"}
    /\ e.gbm_ok /\ e.egl_ok => e.fail \notin {"pixmap2", "header"}
    /\ e.fail = "pixmap" => ~e.egl_ok
    /\ e.fail = "dumb" => e.fb = 0
    /\ e.fb = 0 => e.fail \in {"none", "dumb"}

AllocEnvs(fbs) ==
    {e \in [gbm_ok : BOOLEAN, egl_ok : BOOLEAN, fail : AllocSteps,
            fb : (FbIds \ fbs) \cup {0}] : CanonicalEnv(e)}

AllocResult(ok, vout, fbs, lv) ==
    [ok |-> ok, vout |-> vout, fbs |-> fbs, live |-> lv]

\* drmmode_bo_destroy: frees the buffer object (unmapping a mapped dumb
\* buffer) and clears the pointers.
BoDestroyVout(vout) ==
    [vout EXCEPT !.framebuffer_bo.gbm = FALSE, !.framebuffer_bo.dumb = FALSE,
                 !.framebuffer_bo.mapped = FALSE]

BoDestroyLive(vout, lv) ==
    [lv EXCEPT
        !.bos = IF vout.framebuffer_bo.gbm \/ vout.framebuffer_bo.dumb
                THEN @ - 1 ELSE @,
        !.maps = IF vout.framebuffer_bo.mapped THEN @ - 1 ELSE @]

\* An error path that frees the buffer object and leaves the framebuffer
\* registered.
AllocFailAfterImport_KeepsFb(vout, fbs, lv) ==
    AllocResult(FALSE, BoDestroyVout(vout), fbs, BoDestroyLive(vout, lv))

\* The error paths after a successful import: drmModeRmFB on the identifier
\* and drmmode_bo_destroy; vout->framebuffer_id keeps its value.
AllocFailAfterImport(vout, fbs, lv) ==
    AllocResult(FALSE, BoDestroyVout(vout), fbs \ {vout.framebuffer_id},
                BoDestroyLive(vout, lv))

\* pixmap_created: the pixmap is stored and FRAMEBUFFER_ID is published.
AllocSuccess(vout, fbs, lv, pixmap) ==
    AllocResult(TRUE,
                [vout EXCEPT !.pixmap = pixmap,
                             !.prop_fb_id = vout.framebuffer_id],
                fbs, [lv EXCEPT !.pixmaps = @ + 1])

\* The CPU path: a 0x0 pixmap whose header is pointed at pixmap_ptr, which is
\* the mapping of a dumb buffer and NULL for a GBM buffer.
AllocDumbPixmap(vout, fbs, lv, env) ==
    IF env.fail \in {"pixmap2", "header"}
    THEN AllocFailAfterImport(vout, fbs, lv)
    ELSE AllocSuccess(vout, fbs, lv,
                      IF vout.framebuffer_bo.mapped THEN "cpu" ELSE "unbacked")

AllocPixmap(vout, fbs, lv, env) ==
    IF vout.framebuffer_bo.gbm
    THEN IF env.fail = "pixmap"
         THEN AllocFailAfterImport(vout, fbs, lv)
         ELSE IF env.egl_ok
              THEN AllocSuccess(vout, fbs, lv, "egl")
              ELSE AllocDumbPixmap(vout, fbs, lv, env)
    ELSE AllocDumbPixmap(vout, fbs, lv, env)

AllocMap(vout, fbs, lv, env) ==
    IF vout.framebuffer_bo.gbm
    THEN AllocPixmap(vout, fbs, lv, env)
    ELSE IF env.fail = "map"
         THEN AllocFailAfterImport(vout, fbs, lv)
         ELSE AllocPixmap([vout EXCEPT !.framebuffer_bo.mapped = TRUE], fbs,
                          [lv EXCEPT !.maps = @ + 1], env)

\* An import that registers the framebuffer and does not store its identifier.
AllocImport_IdNotStored(vout, fbs, lv, env) ==
    IF env.fb = 0
    THEN AllocResult(FALSE, BoDestroyVout(vout), fbs, BoDestroyLive(vout, lv))
    ELSE AllocMap(vout, fbs \cup {env.fb}, lv, env)

AllocImport(vout, fbs, lv, env) ==
    IF env.fb = 0
    THEN AllocResult(FALSE, BoDestroyVout(vout), fbs, BoDestroyLive(vout, lv))
    ELSE AllocMap([vout EXCEPT !.framebuffer_id = env.fb],
                  fbs \cup {env.fb}, lv, env)

\* An allocator that never uses the GBM backend.
drmmode_xr_create_offscreen_framebuffer_PrefersDumb(vout, width, height, fbs, lv, env) ==
    LET v0 == [vout EXCEPT
                  !.framebuffer_bo = [ZeroBo EXCEPT !.width = width, !.height = height],
                  !.framebuffer_id = 0,
                  !.pixmap = "none"]
        useGbm == FALSE
    IN  IF ~useGbm /\ env.fail = "dumb"
        THEN AllocResult(FALSE, v0, fbs, lv)
        ELSE AllocImport([v0 EXCEPT !.framebuffer_bo.gbm = useGbm,
                                    !.framebuffer_bo.dumb = ~useGbm],
                         fbs, [lv EXCEPT !.bos = @ + 1], env)

drmmode_xr_create_offscreen_framebuffer(vout, width, height, fbs, lv, env) ==
    LET v0 == [vout EXCEPT
                  !.framebuffer_bo = [ZeroBo EXCEPT !.width = width, !.height = height],
                  !.framebuffer_id = 0,
                  !.pixmap = "none"]
        useGbm == env.gbm_ok
    IN  IF ~useGbm /\ env.fail = "dumb"
        THEN AllocResult(FALSE, v0, fbs, lv)
        ELSE AllocImport([v0 EXCEPT !.framebuffer_bo.gbm = useGbm,
                                    !.framebuffer_bo.dumb = ~useGbm],
                         fbs, [lv EXCEPT !.bos = @ + 1], env)

\* Teardown: pixmap, kernel framebuffer, buffer object, then memset(0).  The
\* result has no ok field that matters; it reuses the allocator's shape.
drmmode_xr_destroy_offscreen_framebuffer(vout, fbs, lv) ==
    AllocResult(TRUE,
                [vout EXCEPT !.pixmap = "none", !.framebuffer_id = 0,
                             !.framebuffer_bo = ZeroBo],
                IF vout.framebuffer_id # 0 THEN fbs \ {vout.framebuffer_id} ELSE fbs,
                [BoDestroyLive(vout, lv) EXCEPT
                    !.pixmaps = IF vout.pixmap # "none" THEN @ - 1 ELSE @])

\* The calls of drmmode_xr_destroy_offscreen_framebuffer that release
\* something, in their order.
DestroyCalls(vout) ==
    (IF vout.pixmap # "none" THEN <<"DestroyPixmap">> ELSE <<>>)
    \o (IF vout.framebuffer_id # 0 THEN <<"drmModeRmFB">> ELSE <<>>)
    \o (IF vout.framebuffer_bo.gbm \/ vout.framebuffer_bo.dumb
        THEN <<"drmmode_bo_destroy">> ELSE <<>>)

\* The calls of drmmode_xr_create_offscreen_framebuffer that acquire or
\* release something, in their order, in environment env: the buffer
\* object, the kernel framebuffer, the mapping of a dumb buffer, the pixmap,
\* and on an error path the releases before the return.
AllocUndo == <<"drmModeRmFB", "drmmode_bo_destroy">>

AllocCalls(env) ==
    LET unmap == IF env.gbm_ok THEN <<>> ELSE <<"munmap">>
        cpu == CASE env.fail = "pixmap2" -> unmap \o AllocUndo
                 [] env.fail = "header" ->
                        <<"CreatePixmap", "DestroyPixmap">> \o unmap \o AllocUndo
                 [] OTHER -> <<"CreatePixmap">>
        pixmap == IF env.gbm_ok
                  THEN IF env.fail = "pixmap" THEN AllocUndo
                       ELSE IF env.egl_ok THEN <<"CreatePixmap">>
                       ELSE <<"CreatePixmap", "DestroyPixmap">> \o cpu
                  ELSE cpu
        map == IF env.gbm_ok THEN pixmap
               ELSE IF env.fail = "map" THEN AllocUndo
               ELSE <<"dumb_bo_map">> \o pixmap
    IN  IF ~env.gbm_ok /\ env.fail = "dumb" THEN <<>>
        ELSE <<IF env.gbm_ok THEN "gbm_bo_create" ELSE "dumb_bo_create">>
             \o (IF env.fb = 0 THEN <<"drmmode_bo_destroy">>
                 ELSE <<"drmModeAddFB">> \o map)

\* What an output owns after each call of a trace, for an output that owns
\* `own` before it (own.bos buffer objects, own.fbs kernel framebuffers,
\* own.pixmaps pixmaps), and the most it owns at any moment.
AfterCall(own, call) ==
    CASE call \in {"gbm_bo_create", "dumb_bo_create"} -> [own EXCEPT !.bos = @ + 1]
      [] call = "drmmode_bo_destroy" -> [own EXCEPT !.bos = @ - 1]
      [] call = "drmModeAddFB" -> [own EXCEPT !.fbs = @ + 1]
      [] call = "drmModeRmFB" -> [own EXCEPT !.fbs = IF @ > 0 THEN @ - 1 ELSE 0]
      [] call = "CreatePixmap" -> [own EXCEPT !.pixmaps = @ + 1]
      [] call = "DestroyPixmap" -> [own EXCEPT !.pixmaps = @ - 1]
      [] OTHER -> own

Max(a, b) == IF a > b THEN a ELSE b

RECURSIVE PeakOwned(_, _)
PeakOwned(own, calls) ==
    IF calls = <<>> THEN own
    ELSE LET rest == PeakOwned(AfterCall(own, Head(calls)), Tail(calls))
         IN  [bos |-> Max(own.bos, rest.bos), fbs |-> Max(own.fbs, rest.fbs),
              pixmaps |-> Max(own.pixmaps, rest.pixmaps)]

\* What the record of an output says it owns.
Owned(vout, fbs) ==
    [bos |-> IF vout.framebuffer_bo.gbm \/ vout.framebuffer_bo.dumb THEN 1 ELSE 0,
     fbs |-> IF vout.framebuffer_id # 0 /\ vout.framebuffer_id \in fbs THEN 1 ELSE 0,
     pixmaps |-> IF vout.pixmap # "none" THEN 1 ELSE 0]

(***************************************************************************)
(* Registry: create, delete, resize                                        *)
(***************************************************************************)
\* The step of drmmode_xr_create_virtual_output at which the host fails to
\* hand out an object ("none": every object is created), and whether
\* RRCrtcCreate succeeds.
HostFailures == {"none", "output", "private", "randr_output", "crtc", "vout"}
HostEnvs ==
    {e \in [fail : HostFailures, randr_crtc_ok : BOOLEAN] :
        e.fail \in {"output", "private", "randr_output", "crtc"} => e.randr_crtc_ok}

OpResult(ret, list, fbs, lv, alloc) ==
    [ret |-> ret, list |-> list, fbs |-> fbs, live |-> lv, alloc |-> alloc]

\* The mode the new CRTC is enabled with: the first published mode of size
\* (width, height), else the first published mode.
PreferredMode(rr_modes, width, height) ==
    IF \E k \in DOMAIN rr_modes :
           rr_modes[k].width = width /\ rr_modes[k].height = height
    THEN LET k == CHOOSE k \in DOMAIN rr_modes :
                      /\ rr_modes[k].width = width /\ rr_modes[k].height = height
                      /\ \A j \in 1..(k - 1) :
                             ~(rr_modes[j].width = width /\ rr_modes[j].height = height)
         IN  <<rr_modes[k].width, rr_modes[k].height>>
    ELSE <<rr_modes[1].width, rr_modes[1].height>>

\* The arguments of the call of drmmode_xr_virtual_set_modes that published
\* the output's current RandR mode list, and the list itself.
SetModesCall(modes, width, height, refresh) ==
    [modes |-> modes, width |-> width, height |-> height, refresh |-> refresh]

PublishedModes(vout) ==
    drmmode_xr_virtual_set_modes(vout.rr_modes.modes, vout.rr_modes.width,
                                 vout.rr_modes.height, vout.rr_modes.refresh)

\* drmmode_xr_create_virtual_crtc: the CRTC of a new output has no mode and
\* its stored power mode is DPMSModeOn.
drmmode_xr_create_virtual_crtc_StartsStandby ==
    [mode |-> NoMode, x |-> 0, y |-> 0, rotation |-> "Rotate_0",
     dpms_mode |-> "Standby", randr_crtc |-> FALSE, randr_mode |-> NoMode,
     lut_r |-> <<>>, lut_g |-> <<>>, lut_b |-> <<>>]

drmmode_xr_create_virtual_crtc ==
    [mode |-> NoMode, x |-> 0, y |-> 0, rotation |-> "Rotate_0",
     dpms_mode |-> "On", randr_crtc |-> FALSE, randr_mode |-> NoMode,
     lut_r |-> <<>>, lut_g |-> <<>>, lut_b |-> <<>>]

\* The record as it is just before the allocator is called (lines 429-628).
NewVout(name, width, height, refresh, henv) ==
    LET rr == drmmode_xr_virtual_set_modes(<<>>, width, height, refresh)
    IN  [name |-> name, width |-> width, height |-> height, refresh |-> refresh,
         modes |-> <<>>,
         framebuffer_bo |-> ZeroBo, framebuffer_id |-> 0, pixmap |-> "none",
         status |-> "connected", non_desktop |-> FALSE,
         rr_connection |-> "connected",
         rr_modes |-> SetModesCall(<<>>, width, height, refresh),
         prop_fb_id |-> 0,
         virtual_marker |-> henv.randr_crtc_ok,
         crtc |-> [drmmode_xr_create_virtual_crtc EXCEPT
                      !.randr_crtc = henv.randr_crtc_ok,
                      !.randr_mode = IF henv.randr_crtc_ok
                                     THEN PreferredMode(rr, width, height)
                                     ELSE NoMode]]

\* A create that gives up when the allocator fails.
Create_GivesUp(list, name, width, height, refresh, fbs, lv, henv, aenv) ==
    IF drmmode_xr_find_virtual_output(list, name) # 0
    THEN OpResult(FALSE, list, fbs, lv, "none")
    ELSE IF henv.fail # "none"
         THEN OpResult(FALSE, list, fbs, lv, "none")
         ELSE LET a == drmmode_xr_create_offscreen_framebuffer(
                           NewVout(name, width, height, refresh, henv),
                           width, height, fbs, lv, aenv)
              IN  IF a.ok
                  THEN OpResult(TRUE, <<a.vout>> \o list, a.fbs, a.live, "ok")
                  ELSE OpResult(FALSE, list, a.fbs, a.live, "failed")

drmmode_xr_create_virtual_output(list, name, width, height, refresh, fbs, lv, henv, aenv) ==
    IF drmmode_xr_find_virtual_output(list, name) # 0
    THEN OpResult(FALSE, list, fbs, lv, "none")
    ELSE IF henv.fail # "none"
         THEN OpResult(FALSE, list, fbs, lv, "none")
         ELSE LET a == drmmode_xr_create_offscreen_framebuffer(
                           NewVout(name, width, height, refresh, henv),
                           width, height, fbs, lv, aenv)
              IN  \* "continuing anyway": the record is linked in whatever
                  \* the allocator returned
                  OpResult(TRUE, <<a.vout>> \o list, a.fbs, a.live,
                           IF a.ok THEN "ok" ELSE "failed")

\* The calls drmmode_xr_create_virtual_output makes for a name that is not
\* registered, in their order, up to the host call that fails (fail) and
\* through the rollback that follows it; "link" is the insertion of the
\* record at the head of the list.
CreateCalls(fail) ==
    LET announced ==
            <<"xf86OutputCreate", "RROutputCreate", "RROutputSetConnection",
              "drmmode_xr_virtual_set_modes", "RRPostPendingProperties",
              "RROutputChanged", "RRTellChanged">>
    IN  CASE fail = "output" -> <<"xf86OutputCreate">>
          [] fail = "private" -> <<"xf86OutputCreate", "xf86OutputDestroy">>
          [] fail = "randr_output" ->
                <<"xf86OutputCreate", "RROutputCreate", "xf86OutputDestroy">>
          [] fail = "crtc" ->
                announced \o <<"drmmode_xr_create_virtual_crtc",
                               "RROutputDestroy", "xf86OutputDestroy">>
          [] fail = "vout" ->
                announced \o <<"drmmode_xr_create_virtual_crtc", "RRCrtcCreate",
                               "xf86CrtcDestroy", "RROutputDestroy",
                               "xf86OutputDestroy">>
          [] OTHER ->
                announced \o <<"drmmode_xr_create_virtual_crtc", "RRCrtcCreate",
                               "create_offscreen_framebuffer", "link">>

\* A delete that tells the listeners before it tears anything down.
DeleteCalls_DisconnectFirst(vout) ==
    <<"unlink", "RROutputSetConnection", "RROutputChanged", "RRTellChanged",
      "destroy_offscreen_framebuffer">>
    \o (IF vout.crtc.randr_crtc THEN <<"RRCrtcDestroy">> ELSE <<>>)
    \o <<"xf86CrtcDestroy", "RROutputDestroy", "xf86OutputDestroy", "free">>

\* The calls drmmode_xr_delete_virtual_output makes for the record it found,
\* in their order: the record is unlinked, the framebuffer torn down, the
\* CRTC destroyed, the RandR output set disconnected, announced and
\* destroyed, the xf86 output destroyed and the record freed.
DeleteCalls(vout) ==
    <<"unlink", "destroy_offscreen_framebuffer">>
    \o (IF vout.crtc.randr_crtc THEN <<"RRCrtcDestroy">> ELSE <<>>)
    \o <<"xf86CrtcDestroy", "RROutputSetConnection", "RROutputChanged",
         "RRTellChanged", "RROutputDestroy", "xf86OutputDestroy", "free">>

\* A delete that reports success for a name it did not find.
Delete_ReportsSuccess(list, name, fbs, lv) ==
    LET i == FirstNamed(list, name)
    IN  IF i = 0
        THEN OpResult(TRUE, list, fbs, lv, "none")
        ELSE LET d == drmmode_xr_destroy_offscreen_framebuffer(list[i], fbs, lv)
             IN  OpResult(TRUE, RemoveAt(list, i), d.fbs, d.live, "none")

\* The function walks the list itself, keeping the predecessor for the unlink.
drmmode_xr_delete_virtual_output(list, name, fbs, lv) ==
    LET i == FirstNamed(list, name)
    IN  IF i = 0
        THEN OpResult(FALSE, list, fbs, lv, "none")
        ELSE LET d == drmmode_xr_destroy_offscreen_framebuffer(list[i], fbs, lv)
             IN  OpResult(TRUE, RemoveAt(list, i), d.fbs, d.live, "none")

\* A resize that stores the height as the width.
Resize_HeightAsWidth(vout, width, height, refresh) ==
    [vout EXCEPT
        !.width = height, !.height = height, !.refresh = refresh,
        !.rr_modes = SetModesCall(vout.modes, width, height, refresh)]

\* Resize from a property write: the stored dimensions and the published
\* modes (the XR_WIDTH, XR_HEIGHT and XR_REFRESH properties get the same values).
drmmode_xr_resize_virtual_output(vout, width, height, refresh) ==
    [vout EXCEPT
        !.width = width, !.height = height, !.refresh = refresh,
        !.rr_modes = SetModesCall(vout.modes, width, height, refresh)]

(***************************************************************************)
(* Releases of the objects of an output                                    *)
(***************************************************************************)
\* The allocated objects of an output: the driver_private block of its xf86
\* output, its record, the record's name and the record's mode list.  An
\* event is the release (free) or a read of one of them.
OutputObjects == {"driver_private", "vout", "name", "modes"}

Free(obj, name) == [ev |-> "free", obj |-> obj, of |-> name]
Read(obj, name) == [ev |-> "read", obj |-> obj, of |-> name]

\* drmmode_xr_virtual_output_destroy, the destroy callback xf86OutputDestroy
\* calls: when the output's record is still in the list it is unlinked and
\* its mode list, name and the record itself are freed; then driver_private
\* is freed when the pointer is not NULL.
drmmode_xr_virtual_output_destroy(name, linked, private) ==
    (IF linked
     THEN <<Read("vout", name), Read("modes", name), Free("modes", name),
            Read("name", name), Free("name", name), Free("vout", name)>>
     ELSE <<>>)
    \o (IF private THEN <<Free("driver_private", name)>> ELSE <<>>)

\* The rollback of drmmode_xr_create_virtual_output once driver_private is
\* assigned: the block is freed, the pointer left in place, and the output
\* destroyed.  When the block could not be allocated the pointer is NULL;
\* when xf86OutputCreate failed there is nothing to roll back.
CreateRollback(name, fail) ==
    CASE fail \in {"none", "output"} -> <<>>
      [] fail = "private" -> drmmode_xr_virtual_output_destroy(name, FALSE, FALSE)
      [] OTHER -> <<Free("driver_private", name)>>
                  \o drmmode_xr_virtual_output_destroy(name, FALSE, TRUE)

\* The end of drmmode_xr_delete_virtual_output: the record is already
\* unlinked when the output is destroyed, then name, mode list and record
\* are freed.
DeleteFrees(name) ==
    <<Read("vout", name)>>
    \o drmmode_xr_virtual_output_destroy(name, FALSE, TRUE)
    \o <<Read("vout", name), Read("name", name), Free("name", name),
         Read("modes", name), Free("modes", name), Free("vout", name)>>

\* The loop of drmmode_xr_virtual_output_fini: for each record, still
\* linked, driver_private is freed and the pointer left in place, the
\* output destroyed, then name, mode list and record are freed.
RECURSIVE FiniFrees(_)
FiniFrees(list) ==
    IF list = <<>> THEN <<>>
    ELSE LET name == Head(list).name
         IN  <<Read("vout", name), Free("driver_private", name)>>
             \o drmmode_xr_virtual_output_destroy(name, TRUE, TRUE)
             \o <<Read("vout", name), Read("name", name), Free("name", name),
                  Read("modes", name), Free("modes", name), Free("vout", name)>>
             \o FiniFrees(Tail(list))

(***************************************************************************)
(* Changes of the registry list within one operation                       *)
(***************************************************************************)
\* One change of the list: who made it, what it did, to which record.
RegistryEvent(by, ev, name) == [by |-> by, ev |-> ev, of |-> name]

\* The list walk of the destroy callback, run on the registry as it is when
\* xf86OutputDestroy calls it: a record of the output still in the list is
\* unlinked by the callback.
DestroyCallbackUnlink(list, name) ==
    LET k == drmmode_xr_find_virtual_output(list, name)
    IN  IF k = 0
        THEN [list |-> list, events |-> <<>>]
        ELSE [list |-> RemoveAt(list, k),
              events |-> <<RegistryEvent("output_destroy", "unlink", name)>>]

\* drmmode_xr_create_virtual_output: the rollbacks destroy the output
\* before any record is linked; a create that goes through links the record
\* at the head of the list as its last step.
CreateRegistry(list, name, fail) ==
    CASE fail \in {"output", "private"} -> [list |-> list, events |-> <<>>]
      [] fail \in {"randr_output", "crtc", "vout"} ->
            DestroyCallbackUnlink(list, name)
      [] OTHER -> [list |-> list,
                   events |-> <<RegistryEvent("create", "link", name)>>]

\* drmmode_xr_delete_virtual_output: the record is unlinked first, the
\* output destroyed afterwards, on the list without the record.
DeleteRegistry(list, name) ==
    LET k == drmmode_xr_find_virtual_output(list, name)
        cb == DestroyCallbackUnlink(RemoveAt(list, k), name)
    IN  IF k = 0
        THEN [list |-> list, events |-> <<>>]
        ELSE [list |-> cb.list,
              events |-> <<RegistryEvent("delete", "unlink", name)>>
                         \o cb.events]

\* The loop of drmmode_xr_virtual_output_fini over the records it has yet
\* to visit: each output is destroyed while its record is in the list, and
\* the list head is cleared after the loop.
RECURSIVE FiniRegistry(_, _)
FiniRegistry(list, todo) ==
    IF todo = <<>>
    THEN [list |-> <<>>, events |-> <<RegistryEvent("fini", "clear", "")>>]
    ELSE LET cb == DestroyCallbackUnlink(list, Head(todo).name)
             rest == FiniRegistry(cb.list, Tail(todo))
         IN  [list |-> rest.list, events |-> cb.events \o rest.events]

(***************************************************************************)
(* Command parsing of the XR-Manager property handler                      *)
(***************************************************************************)
\* A long is kept as 16-bit limbs, least significant first: two limbs for
\* a 32-bit long, four for a 64-bit one.
LongWidths == {32, 64}

LONG_MAX(bits) == [k \in 1..(bits \div 16) |-> IF k = bits \div 16 THEN 32767 ELSE 65535]

Zero(bits) == [k \in 1..(bits \div 16) |-> 0]

\* limbs * 10 + carry from limb k on, with the carry out of the top limb
\* as one more limb.
\* limbs * 10 + carry from limb k on, with the carry out of the top limb
\* as one more limb.
RECURSIVE MulAdd(_, _, _)
MulAdd(limbs, k, carry) ==
    IF k > Len(limbs) THEN <<carry>>
    ELSE LET t == limbs[k] * 10 + carry
         IN  <<t % 65536>> \o MulAdd(limbs, k + 1, t \div 65536)

\* strtol(text, &end, 10) on a run of decimal digits: the value, and
\* LONG_MAX once the value no longer fits a long.
RECURSIVE Accumulate(_, _, _)
Accumulate(digits, acc, bits) ==
    IF digits = <<>> THEN acc
    ELSE LET m == MulAdd(acc, 1, Head(digits))
             n == bits \div 16
         IN  IF acc = LONG_MAX(bits) \/ m[n + 1] # 0 \/ m[n] >= 32768
             THEN LONG_MAX(bits)
             ELSE Accumulate(Tail(digits), SubSeq(m, 1, n), bits)

strtol(digits, bits) == Accumulate(digits, Zero(bits), bits)

\* (int) of a long: its low 32 bits as a two's-complement number.
IntCast(limbs) ==
    IF limbs[2] >= 32768
    THEN (limbs[2] - 65536) * 65536 + limbs[1]
    ELSE limbs[2] * 65536 + limbs[1]

\* "NAME[:WIDTH[:HEIGHT[:REFRESH]]]": a missing field keeps its initial value.
ParseCreate(payload, bits) ==
    [name |-> payload[1],
     width |-> IF Len(payload) >= 2 THEN IntCast(strtol(payload[2], bits))
               ELSE DefaultWidth,
     height |-> IF Len(payload) >= 3 THEN IntCast(strtol(payload[3], bits))
                ELSE DefaultHeight,
     refresh |-> IF Len(payload) >= 4 THEN IntCast(strtol(payload[4], bits))
                 ELSE DefaultRefresh]

\* The widths of long that can make a difference to a command: both when a
\* number has more than nine digits, else one.
LongBits(payload) ==
    IF \E k \in 2..Len(payload) : Len(payload[k]) > 9 THEN LongWidths ELSE {64}

\* The delete payload is the name as a whole; a payload with a ':' in it is a
\* name no output has.
DeleteName(payload) ==
    IF Len(payload) = 1 THEN payload[1] ELSE "<name with ':'>"

NoOp == [op |-> "none", name |-> "", width |-> 0, height |-> 0,
         refresh |-> 0, ret |-> FALSE, alloc |-> "none", host_ok |-> TRUE,
         calls |-> <<>>, value |-> 0, prop |-> "", vtype |-> "", mem |-> <<>>]

(***************************************************************************)
(* Handlers                                                                *)
(***************************************************************************)
Init ==
    /\ xr_virtual_outputs = <<>>
    /\ xr_manager_output = NoManager
    /\ kernel_fbs = {}
    /\ live = [bos |-> 0, maps |-> 0, pixmaps |-> 0]
    /\ lastOp = NoOp
    /\ deleted = {}
    /\ last_access = [n \in Names \cup {XR_MANAGER_OUTPUT_NAME} |-> 0]
    /\ nops = 0

\* The server initialises the driver before it dispatches the first request.
StartingUp == lastOp.op \in {"none", "init", "post_screen_init"}

\* The server serves requests until it has torn the driver down.
Running == lastOp.op # "fini"

\* A run of bounded length counts its requests; an unbounded one does not.
Counted(bound) ==
    /\ Running
    /\ IF bound > 0 THEN nops < bound /\ nops' = nops + 1 ELSE UNCHANGED nops

\* The XR-Manager output as drmmode_xr_virtual_output_init sets it up: not
\* a desktop output, disconnected, without a RandR output yet.
NewManagerOutput_Connected ==
    [exists |-> TRUE, name |-> XR_MANAGER_OUTPUT_NAME,
     status |-> "connected", non_desktop |-> TRUE,
     randr_output |-> FALSE,
     rr_connection |-> "none", rr_non_desktop |-> FALSE,
     props |-> {}]

NewManagerOutput ==
    [exists |-> TRUE, name |-> XR_MANAGER_OUTPUT_NAME,
     status |-> "disconnected", non_desktop |-> TRUE,
     randr_output |-> FALSE,
     rr_connection |-> "none", rr_non_desktop |-> FALSE,
     props |-> {}]

\* drmmode_xr_virtual_output_init: a call that finds the Manager returns at
\* once; lastOp.calls tells whether the call went on to xf86OutputCreate.
VirtualOutputInitCall ==
    \E output_ok \in BOOLEAN :
        /\ IF xr_manager_output.exists
           THEN /\ UNCHANGED <<xr_virtual_outputs, xr_manager_output>>
                /\ lastOp' = [NoOp EXCEPT !.op = "init", !.ret = TRUE]
           ELSE IF ~output_ok
                THEN /\ UNCHANGED <<xr_virtual_outputs, xr_manager_output>>
                     /\ lastOp' = [NoOp EXCEPT !.op = "init", !.ret = FALSE,
                                                !.calls = <<"xf86OutputCreate">>]
                ELSE /\ xr_manager_output' = NewManagerOutput
                     /\ xr_virtual_outputs' = <<>>
                     /\ lastOp' = [NoOp EXCEPT !.op = "init", !.ret = TRUE,
                                                !.calls = <<"xf86OutputCreate">>]
        /\ UNCHANGED <<kernel_fbs, live, deleted, last_access, nops>>

\* The call at server start.
VirtualOutputInit == StartingUp /\ VirtualOutputInitCall

\* A call at any later time before teardown.
VirtualOutputInitAgain == Running /\ VirtualOutputInitCall

\* drmmode_xr_virtual_output_post_screen_init
PostScreenInitCall ==
    \E randr_ok \in BOOLEAN :
        /\ IF ~xr_manager_output.exists
           THEN /\ UNCHANGED xr_manager_output
                /\ lastOp' = [NoOp EXCEPT !.op = "post_screen_init", !.ret = FALSE]
           ELSE IF ~xr_manager_output.randr_output /\ ~randr_ok
                THEN /\ UNCHANGED xr_manager_output
                     /\ lastOp' = [NoOp EXCEPT !.op = "post_screen_init", !.ret = FALSE]
                ELSE /\ xr_manager_output' =
                            [xr_manager_output EXCEPT
                                !.randr_output = TRUE,
                                !.rr_connection = "disconnected",
                                !.rr_non_desktop = TRUE,
                                !.props = {CREATE_XR_OUTPUT_PROPERTY,
                                           DELETE_XR_OUTPUT_PROPERTY}]
                     /\ lastOp' = [NoOp EXCEPT !.op = "post_screen_init", !.ret = TRUE]
        /\ UNCHANGED <<xr_virtual_outputs, kernel_fbs, live, deleted, last_access, nops>>

\* The call at server start.
PostScreenInit == StartingUp /\ PostScreenInitCall

\* A call at any later time before teardown.
PostScreenInitAgain == Running /\ PostScreenInitCall

ManagerProperties == {CREATE_XR_OUTPUT_PROPERTY, DELETE_XR_OUTPUT_PROPERTY, "OTHER"}
ValueTypes == {"STRING", "INTEGER"}

\* drmmode_xr_manager_set_property with a CREATE_XR_OUTPUT string
ManagerCreateResult(c, henv, aenv) ==
    IF c.name = ""
        THEN OpResult(FALSE, xr_virtual_outputs, kernel_fbs, live, "none")
        ELSE drmmode_xr_create_virtual_output(
                 xr_virtual_outputs, c.name, c.width, c.height, c.refresh,
                 kernel_fbs, live, henv, aenv)

ManagerCreate(payload, c, vtype, henv, aenv) ==
    LET r == ManagerCreateResult(c, henv, aenv)
    IN  /\ xr_virtual_outputs' = r.list
        /\ kernel_fbs' = r.fbs
        /\ live' = r.live
        /\ lastOp' = [NoOp EXCEPT
                         !.op = "create", !.name = c.name,
                         !.width = c.width, !.height = c.height, !.refresh = c.refresh,
                         !.ret = r.ret, !.alloc = r.alloc,
                         !.host_ok = (henv.fail = "none"),
                         !.prop = CREATE_XR_OUTPUT_PROPERTY, !.vtype = vtype,
                         !.value = payload,
                         !.mem = IF Lookup(xr_virtual_outputs, c.name) # NoVout
                                 THEN <<>>
                                 ELSE CreateRollback(c.name, henv.fail)]
        \* the power controller starts the new output's time at zero
        /\ last_access' = IF r.ret THEN [last_access EXCEPT ![c.name] = 0]
                                    ELSE last_access
        /\ UNCHANGED deleted

\* The environments that can make a difference to a create command: none
\* when the command is rejected before any object is made, the host's
\* answers up to its first failure, and the allocator's when it is reached.
NoHostEnv == [fail |-> "none", randr_crtc_ok |-> TRUE]
NoAllocEnv == [gbm_ok |-> FALSE, egl_ok |-> FALSE, fail |-> "none", fb |-> 0]

CreateEnvs(payload) ==
    IF payload[1] = ""
       \/ Lookup(xr_virtual_outputs, payload[1]) # NoVout
    THEN {<<NoHostEnv, NoAllocEnv>>}
    ELSE {<<h, NoAllocEnv>> : h \in {e \in HostEnvs : e.fail # "none"}}
         \cup ({e \in HostEnvs : e.fail = "none"} \X AllocEnvs(kernel_fbs))

\* drmmode_xr_manager_set_property with a DELETE_XR_OUTPUT string
ManagerDelete(payload, vtype) ==
    LET n == DeleteName(payload)
        r == drmmode_xr_delete_virtual_output(xr_virtual_outputs, n, kernel_fbs, live)
    IN  /\ xr_virtual_outputs' = r.list
        /\ kernel_fbs' = r.fbs
        /\ live' = r.live
        /\ lastOp' = [NoOp EXCEPT
                         !.op = "delete", !.name = n,
                         !.ret = r.ret,
                         !.prop = DELETE_XR_OUTPUT_PROPERTY, !.vtype = vtype,
                         !.calls = IF FirstNamed(xr_virtual_outputs, n) = 0
                                   THEN <<>>
                                   ELSE DeleteCalls(
                                            xr_virtual_outputs[
                                                FirstNamed(xr_virtual_outputs, n)]),
                         !.mem = IF r.ret THEN DeleteFrees(n) ELSE <<>>]
        /\ deleted' = IF r.ret THEN deleted \cup {n} ELSE deleted
        \* the power controller forgets the output
        /\ last_access' = IF r.ret THEN [last_access EXCEPT ![n] = 0]
                                    ELSE last_access

\* The two early returns of drmmode_xr_manager_set_property: a property
\* that is neither command, and a value that is not an 8-bit string.
ManagerRejects_TypeUnchecked(prop, vtype) ==
    prop \notin {CREATE_XR_OUTPUT_PROPERTY, DELETE_XR_OUTPUT_PROPERTY}

ManagerRejects(prop, vtype) ==
    \/ prop \notin {CREATE_XR_OUTPUT_PROPERTY, DELETE_XR_OUTPUT_PROPERTY}
    \/ vtype # "STRING"

\* drmmode_xr_manager_set_property
ManagerSetProperty(creates, deletes, bound) ==
    /\ Counted(bound)
    /\ xr_manager_output.exists
    /\ xr_manager_output.randr_output
    /\ \E prop \in ManagerProperties, vtype \in ValueTypes :
        IF ManagerRejects(prop, vtype)
        THEN /\ lastOp' = [NoOp EXCEPT !.op = "manager_reject",
                                       !.prop = prop, !.vtype = vtype]
             /\ UNCHANGED <<xr_virtual_outputs, kernel_fbs, live, deleted, last_access>>
        ELSE IF prop = CREATE_XR_OUTPUT_PROPERTY
             THEN \E payload \in creates :
                      \E bits \in LongBits(payload) :
                          LET c == ParseCreate(payload, bits)
                          IN  \E env \in CreateEnvs(payload) :
                                  ManagerCreate(payload, c, vtype, env[1], env[2])
             ELSE \E payload \in deletes : ManagerDelete(payload, vtype)
    /\ UNCHANGED xr_manager_output

VirtualProperties ==
    {XR_WIDTH_PROPERTY, XR_HEIGHT_PROPERTY, XR_REFRESH_PROPERTY, XR_MODES_PROPERTY, "OTHER"}

\* The three properties a client resizes an output with.
ResizeProperties == {XR_WIDTH_PROPERTY, XR_HEIGHT_PROPERTY, XR_REFRESH_PROPERTY}

\* The values a client writes to a property of a virtual output: integers,
\* and mode lists for XR_MODES.
PropertyValues(prop) ==
    IF prop = XR_WIDTH_PROPERTY THEN WidthValues
    ELSE IF prop = XR_HEIGHT_PROPERTY THEN HeightValues
    ELSE IF prop = XR_MODES_PROPERTY THEN ModesValues
    ELSE RefreshValues

\* The XR_MODES branch: every token with at least two numbers (the refresh
\* rate is 60 when the third is missing) and within the bounds is put at the
\* head of the list.
RECURSIVE ParseModes(_, _)
ParseModes(tokens, modes) ==
    IF tokens = <<>> THEN modes
    ELSE LET t == Head(tokens)
             w == IF Len(t) >= 1 THEN t[1] ELSE 0
             h == IF Len(t) >= 2 THEN t[2] ELSE 0
             r == IF Len(t) >= 3 THEN t[3] ELSE DefaultRefresh
         IN  ParseModes(Tail(tokens),
                        IF Len(t) >= 2 /\ InRange(w, h, r)
                        THEN <<[width |-> w, height |-> h, refresh |-> r]>> \o modes
                        ELSE modes)

\* (width, height, refresh) a write of value to prop asks for.
Requested(vout, prop, value) ==
    [width |-> IF prop = XR_WIDTH_PROPERTY THEN value ELSE vout.width,
     height |-> IF prop = XR_HEIGHT_PROPERTY THEN value ELSE vout.height,
     refresh |-> IF prop = XR_REFRESH_PROPERTY THEN value ELSE vout.refresh]

\* drmmode_xr_virtual_set_property on the output of record vout: the first
\* test lets only a single 32-bit integer through, so the XR_MODES branch,
\* which wants a string, returns FALSE.
drmmode_xr_virtual_set_property(vout, prop, vtype, value) ==
    LET q == Requested(vout, prop, value)
    IN  IF vtype # "INTEGER"
        THEN [ret |-> FALSE, vout |-> vout]
        ELSE IF prop = XR_MODES_PROPERTY
             THEN IF vtype # "STRING"
                  THEN [ret |-> FALSE, vout |-> vout]
                  ELSE [ret |-> TRUE,
                        vout |-> [vout EXCEPT
                                     !.modes = ParseModes(value, <<>>),
                                     !.rr_modes = SetModesCall(
                                                      ParseModes(value, <<>>),
                                                      vout.width, vout.height,
                                                      vout.refresh)]]
             ELSE IF prop \notin {XR_WIDTH_PROPERTY, XR_HEIGHT_PROPERTY, XR_REFRESH_PROPERTY}
                  THEN [ret |-> FALSE, vout |-> vout]
                  ELSE IF ~InRange(q.width, q.height, q.refresh)
                       THEN [ret |-> FALSE, vout |-> vout]
                       ELSE [ret |-> TRUE,
                             vout |-> drmmode_xr_resize_virtual_output(
                                          vout, q.width, q.height, q.refresh)]

VirtualSetProperty(props, vtypes, bound) ==
    /\ Counted(bound)
    /\ \E i \in DOMAIN xr_virtual_outputs, prop \in props, vtype \in vtypes :
         \E value \in PropertyValues(prop) :
            LET vout == xr_virtual_outputs[i]
                q == Requested(vout, prop, value)
                r == drmmode_xr_virtual_set_property(vout, prop, vtype, value)
            IN  /\ xr_virtual_outputs' = [xr_virtual_outputs EXCEPT ![i] = r.vout]
                /\ lastOp' = [NoOp EXCEPT
                                 !.op = "set_property", !.name = vout.name,
                                 !.width = q.width, !.height = q.height,
                                 !.refresh = q.refresh,
                                 !.ret = r.ret,
                                 !.prop = prop, !.vtype = vtype,
                                 !.value = IF prop = XR_MODES_PROPERTY
                                           THEN value ELSE 0]
    /\ UNCHANGED <<xr_manager_output, kernel_fbs, live, deleted, last_access>>

(***************************************************************************)
(* Virtual CRTC                                                            *)
(***************************************************************************)
\* A mode-set that reallocates the buffer and leaves the record's
\* dimensions as they were.
drmmode_xr_virtual_crtc_set_mode_major_KeepsDims(vout, mode, place, fbs, lv, aenv) ==
    LET stored == [vout.crtc EXCEPT !.mode = mode, !.x = place.x, !.y = place.y,
                                    !.rotation = place.rotation]
    IN  IF mode = NoMode
        THEN [vout |-> vout, fbs |-> fbs, live |-> lv, alloc |-> "none"]
        ELSE IF vout.width # mode[1] \/ vout.height # mode[2]
             THEN LET d == drmmode_xr_destroy_offscreen_framebuffer(vout, fbs, lv)
                      a == drmmode_xr_create_offscreen_framebuffer(
                               d.vout, mode[1], mode[2], d.fbs, d.live, aenv)
                  IN  IF a.ok
                      THEN [vout |-> [a.vout EXCEPT !.crtc = stored],
                            fbs |-> a.fbs, live |-> a.live, alloc |-> "ok"]
                      ELSE [vout |-> [a.vout EXCEPT !.crtc = stored],
                            fbs |-> a.fbs, live |-> a.live, alloc |-> "failed"]
             ELSE [vout |-> [vout EXCEPT !.crtc = stored],
                   fbs |-> fbs, live |-> lv, alloc |-> "none"]

\* A resize that builds the new buffer before it destroys the old one.
SetModeCalls_AllocFirst(vout, mode, env) ==
    IF mode = NoMode \/ (vout.width = mode[1] /\ vout.height = mode[2])
    THEN <<>>
    ELSE AllocCalls(env) \o DestroyCalls(vout)

\* The calls of the resize block of drmmode_xr_virtual_crtc_set_mode_major:
\* the old framebuffer is destroyed, then the new one is created.
SetModeCalls(vout, mode, env) ==
    IF mode = NoMode \/ (vout.width = mode[1] /\ vout.height = mode[2])
    THEN <<>>
    ELSE DestroyCalls(vout) \o AllocCalls(env)

\* A mode-set that gives up when the reallocation fails, before it stores
\* the mode.
drmmode_xr_virtual_crtc_set_mode_major_GivesUp(vout, mode, place, fbs, lv, aenv) ==
    LET stored == [vout.crtc EXCEPT !.mode = mode, !.x = place.x, !.y = place.y,
                                    !.rotation = place.rotation]
    IN  IF mode = NoMode
        THEN [vout |-> vout, fbs |-> fbs, live |-> lv, alloc |-> "none"]
        ELSE IF vout.width # mode[1] \/ vout.height # mode[2]
             THEN LET d == drmmode_xr_destroy_offscreen_framebuffer(vout, fbs, lv)
                      a == drmmode_xr_create_offscreen_framebuffer(
                               d.vout, mode[1], mode[2], d.fbs, d.live, aenv)
                  IN  IF a.ok
                      THEN [vout |-> [a.vout EXCEPT !.width = mode[1], !.height = mode[2],
                                                    !.crtc = stored],
                            fbs |-> a.fbs, live |-> a.live, alloc |-> "ok"]
                      ELSE [vout |-> a.vout,
                            fbs |-> a.fbs, live |-> a.live, alloc |-> "failed"]
             ELSE [vout |-> [vout EXCEPT !.crtc = stored],
                   fbs |-> fbs, live |-> lv, alloc |-> "none"]

\* drmmode_xr_virtual_crtc_set_mode_major on the CRTC of record vout.
drmmode_xr_virtual_crtc_set_mode_major(vout, mode, place, fbs, lv, aenv) ==
    LET stored == [vout.crtc EXCEPT !.mode = mode, !.x = place.x, !.y = place.y,
                                    !.rotation = place.rotation]
    IN  IF mode = NoMode
        THEN [vout |-> vout, fbs |-> fbs, live |-> lv, alloc |-> "none"]
        ELSE IF vout.width # mode[1] \/ vout.height # mode[2]
             THEN LET d == drmmode_xr_destroy_offscreen_framebuffer(vout, fbs, lv)
                      a == drmmode_xr_create_offscreen_framebuffer(
                               d.vout, mode[1], mode[2], d.fbs, d.live, aenv)
                  IN  IF a.ok
                      THEN [vout |-> [a.vout EXCEPT !.width = mode[1], !.height = mode[2],
                                                    !.crtc = stored],
                            fbs |-> a.fbs, live |-> a.live, alloc |-> "ok"]
                      ELSE [vout |-> [a.vout EXCEPT !.crtc = stored],
                            fbs |-> a.fbs, live |-> a.live, alloc |-> "failed"]
             ELSE [vout |-> [vout EXCEPT !.crtc = stored],
                   fbs |-> fbs, live |-> lv, alloc |-> "none"]

CrtcSetModeMajor(bound) ==
    /\ Counted(bound)
    /\ \E i \in DOMAIN xr_virtual_outputs, mode \in ModeDims \cup {NoMode} :
         LET vout == xr_virtual_outputs[i]
             place == Placement(mode)
             d == drmmode_xr_destroy_offscreen_framebuffer(vout, kernel_fbs, live)
         IN  \E aenv \in IF mode = NoMode \/ (vout.width = mode[1] /\ vout.height = mode[2])
                           THEN {NoAllocEnv} ELSE AllocEnvs(d.fbs) :
                LET r == drmmode_xr_virtual_crtc_set_mode_major(
                             vout, mode, place, kernel_fbs, live, aenv)
                IN  /\ xr_virtual_outputs' = [xr_virtual_outputs EXCEPT ![i] = r.vout]
                    /\ kernel_fbs' = r.fbs
                    /\ live' = r.live
                    /\ lastOp' = [NoOp EXCEPT
                                     !.op = "set_mode_major", !.name = vout.name,
                                     !.width = mode[1], !.height = mode[2],
                                     !.ret = TRUE, !.alloc = r.alloc]
    /\ UNCHANGED <<xr_manager_output, deleted, last_access>>

(***************************************************************************)
(* Activity and power                                                      *)
(***************************************************************************)
\* The inactivity threshold of the power controller, in time units.
StandbyAfter == 5

DpmsModes == {"On", "Standby", "Off"}

\* drmmode_xr_virtual_crtc_dpms: a virtual CRTC only records the mode.
drmmode_xr_virtual_crtc_dpms_Ignored(crtc, mode) == crtc

drmmode_xr_virtual_crtc_dpms(crtc, mode) == [crtc EXCEPT !.dpms_mode = mode]

\* The server sets the power mode of the CRTC of an output (DPMS request).
CrtcDpms ==
    /\ Running
    /\ \E i \in DOMAIN xr_virtual_outputs, mode \in DpmsModes :
         LET vout == xr_virtual_outputs[i]
         IN  /\ xr_virtual_outputs' =
                    [xr_virtual_outputs EXCEPT
                        ![i].crtc = drmmode_xr_virtual_crtc_dpms(vout.crtc, mode)]
             /\ lastOp' = [NoOp EXCEPT !.op = "dpms", !.name = vout.name]
    /\ UNCHANGED <<xr_manager_output, kernel_fbs, live, deleted, last_access, nops>>

\* The cursor callbacks of a virtual CRTC: it has no hardware cursor, the
\* bodies are empty, and the two that return a value return TRUE.
CursorOps ==
    {"set_cursor_colors", "set_cursor_position", "show_cursor", "hide_cursor",
     "load_cursor_argb"}

drmmode_xr_virtual_crtc_set_cursor_colors(crtc) == crtc
drmmode_xr_virtual_crtc_set_cursor_position(crtc) == crtc
drmmode_xr_virtual_crtc_show_cursor(crtc) == [crtc |-> crtc, ret |-> TRUE]
drmmode_xr_virtual_crtc_hide_cursor(crtc) == crtc
drmmode_xr_virtual_crtc_load_cursor_argb(crtc) == [crtc |-> crtc, ret |-> TRUE]

\* The server calls one of the cursor callbacks of the CRTC of an output;
\* a callback without a return value is recorded as ret TRUE.
CrtcCursor ==
    /\ Running
    /\ \E i \in DOMAIN xr_virtual_outputs, op \in CursorOps :
         LET vout == xr_virtual_outputs[i]
             r == CASE op = "set_cursor_colors" ->
                          [crtc |-> drmmode_xr_virtual_crtc_set_cursor_colors(vout.crtc),
                           ret |-> TRUE]
                    [] op = "set_cursor_position" ->
                          [crtc |-> drmmode_xr_virtual_crtc_set_cursor_position(vout.crtc),
                           ret |-> TRUE]
                    [] op = "show_cursor" ->
                          drmmode_xr_virtual_crtc_show_cursor(vout.crtc)
                    [] op = "hide_cursor" ->
                          [crtc |-> drmmode_xr_virtual_crtc_hide_cursor(vout.crtc),
                           ret |-> TRUE]
                    [] OTHER -> drmmode_xr_virtual_crtc_load_cursor_argb(vout.crtc)
         IN  /\ xr_virtual_outputs' = [xr_virtual_outputs EXCEPT ![i].crtc = r.crtc]
             /\ lastOp' = [NoOp EXCEPT !.op = op, !.name = vout.name, !.ret = r.ret]
    /\ UNCHANGED <<xr_manager_output, kernel_fbs, live, deleted, last_access, nops>>

\* The number of entries of each colour table of a CRTC.
LutSize == 256

\* A gamma ramp of the given size, counting up from base in 16 bits.
Ramp(base, size) == [i \in 1..size |-> (base + i - 1) % 65536]

\* Ramps the server hands to gamma_set: the first value of the red, green
\* and blue ramp, and sizes below, at and above the table size.
GammaBases == {<<0, 256, 512>>, <<65280, 65280, 65280>>}
GammaSizes == {1, LutSize, LutSize + 1}

\* A table is kept as the entries written so far; the entries behind them
\* are the zeros of the calloc in drmmode_xr_create_virtual_crtc.
StoreLut(lut, ramp, n) ==
    [i \in 1..(IF Len(lut) > n THEN Len(lut) ELSE n) |->
        IF i <= n THEN ramp[i] ELSE lut[i]]

\* A gamma_set that copies the whole ramp whatever its size.
drmmode_xr_virtual_crtc_gamma_set_Uncapped(crtc, red, green, blue, size) ==
    [crtc EXCEPT !.lut_r = StoreLut(crtc.lut_r, red, size),
                 !.lut_g = StoreLut(crtc.lut_g, green, size),
                 !.lut_b = StoreLut(crtc.lut_b, blue, size)]

\* drmmode_xr_virtual_crtc_gamma_set: copies the entries i < size, i < 256
\* of the three ramps into the tables of the CRTC.
drmmode_xr_virtual_crtc_gamma_set(crtc, red, green, blue, size) ==
    LET n == IF size < LutSize THEN size ELSE LutSize
    IN  [crtc EXCEPT !.lut_r = StoreLut(crtc.lut_r, red, n),
                     !.lut_g = StoreLut(crtc.lut_g, green, n),
                     !.lut_b = StoreLut(crtc.lut_b, blue, n)]

\* The server sets the gamma ramps of the CRTC of an output.
CrtcGammaSet ==
    /\ Running
    /\ \E i \in DOMAIN xr_virtual_outputs, base \in GammaBases, size \in GammaSizes :
         LET vout == xr_virtual_outputs[i]
         IN  /\ xr_virtual_outputs' =
                    [xr_virtual_outputs EXCEPT
                        ![i].crtc = drmmode_xr_virtual_crtc_gamma_set(
                                        vout.crtc, Ramp(base[1], size),
                                        Ramp(base[2], size), Ramp(base[3], size),
                                        size)]
             /\ lastOp' = [NoOp EXCEPT !.op = "gamma_set", !.name = vout.name,
                                       !.ret = TRUE, !.value = <<base, size>>]
    /\ UNCHANGED <<xr_manager_output, kernel_fbs, live, deleted, last_access, nops>>

\* The two states of the power controller are the power modes On and
\* Standby of the output's CRTC.
Active(vout) == vout.crtc.dpms_mode = "On"

Standby(vout) == vout.crtc.dpms_mode = "Standby"

\* A read of FRAMEBUFFER_ID is the keep-alive signal: it wakes the output
\* if it was in Standby.
KeepAlive(vout) ==
    IF Standby(vout)
    THEN [vout EXCEPT !.crtc = drmmode_xr_virtual_crtc_dpms(vout.crtc, "On")]
    ELSE vout

\* A client reads the FRAMEBUFFER_ID property of an output: the answer is
\* the value published last, and the time since the last read starts anew.
ReadFramebufferId ==
    /\ Running
    /\ \E i \in DOMAIN xr_virtual_outputs :
         LET vout == xr_virtual_outputs[i]
         IN  /\ xr_virtual_outputs' = [xr_virtual_outputs EXCEPT ![i] = KeepAlive(vout)]
             /\ last_access' = [last_access EXCEPT ![vout.name] = 0]
             /\ lastOp' = [NoOp EXCEPT
                              !.op = "get_property", !.name = vout.name,
                              !.ret = TRUE, !.value = vout.prop_fb_id,
                              !.calls = IF Standby(vout) THEN <<"crtc_dpms">> ELSE <<>>]
    /\ UNCHANGED <<xr_manager_output, kernel_fbs, live, deleted, nops>>

\* One time unit passes.  A time at or past the threshold is kept as the
\* threshold: the timer only asks whether the threshold has been reached.
Tick ==
    /\ Running
    /\ \E k \in DOMAIN xr_virtual_outputs :
          last_access[xr_virtual_outputs[k].name] < StandbyAfter
    /\ last_access' =
          [n \in DOMAIN last_access |->
              IF /\ \E k \in DOMAIN xr_virtual_outputs : xr_virtual_outputs[k].name = n
                 /\ last_access[n] < StandbyAfter
              THEN last_access[n] + 1
              ELSE last_access[n]]
    /\ lastOp' = [NoOp EXCEPT !.op = "tick"]
    /\ UNCHANGED <<xr_virtual_outputs, xr_manager_output, kernel_fbs, live, deleted, nops>>

\* An Active output that has not been read for the threshold or longer.
TimedOut(vout) == Active(vout) /\ last_access[vout.name] >= StandbyAfter

\* The recurring inactivity timer: every output that timed out goes to
\* Standby.
InactivityTimer ==
    /\ Running
    /\ xr_virtual_outputs # <<>>
    /\ xr_virtual_outputs' =
          [k \in DOMAIN xr_virtual_outputs |->
              IF TimedOut(xr_virtual_outputs[k])
              THEN [xr_virtual_outputs[k] EXCEPT
                       !.crtc = drmmode_xr_virtual_crtc_dpms(@, "Standby")]
              ELSE xr_virtual_outputs[k]]
    /\ lastOp' = [NoOp EXCEPT !.op = "timer"]
    /\ UNCHANGED <<xr_manager_output, kernel_fbs, live, deleted, last_access, nops>>

(***************************************************************************)
(* Teardown                                                                *)
(***************************************************************************)
\* drmmode_xr_virtual_output_fini.  For every record it destroys the RandR
\* output, frees the output's driver_private and calls xf86OutputDestroy,
\* whose destroy callback (drmmode_xr_virtual_output_destroy) finds the
\* record still linked, frees it and frees driver_private again; fini then
\* frees the record's name and the record once more.  With a record in the
\* list the behaviour is undefined: the function runs to its end, or the
\* process is aborted inside free() (ret FALSE, nothing after it).  No
\* framebuffer, buffer object, pixmap or CRTC is released on either path.
Fini ==
    /\ Running
    /\ \E completes \in (IF xr_virtual_outputs = <<>> THEN {TRUE} ELSE BOOLEAN) :
         /\ lastOp' = [NoOp EXCEPT !.op = "fini", !.ret = completes,
                                   !.mem = FiniFrees(xr_virtual_outputs)]
         /\ IF completes
            THEN /\ xr_virtual_outputs' = <<>>
                 /\ xr_manager_output' = NoManager
                 /\ last_access' = [n \in DOMAIN last_access |-> 0]
            ELSE UNCHANGED <<xr_virtual_outputs, xr_manager_output, last_access>>
    /\ UNCHANGED <<kernel_fbs, live, deleted, nops>>

\* The host destroys the xf86 output of a registered virtual output
\* (xf86OutputDestroy from the server's own teardown of its outputs): the
\* destroy callback finds the record linked, unlinks and frees it and frees
\* driver_private.  The framebuffer, the buffer and the CRTC stay as they are.
HostOutputDestroy ==
    /\ Running
    /\ Counted(MaxOps)
    /\ \E k \in DOMAIN xr_virtual_outputs :
         /\ xr_virtual_outputs' = RemoveAt(xr_virtual_outputs, k)
         /\ lastOp' = [NoOp EXCEPT
                          !.op = "output_destroy",
                          !.name = xr_virtual_outputs[k].name, !.ret = TRUE,
                          !.mem = drmmode_xr_virtual_output_destroy(
                                      xr_virtual_outputs[k].name, TRUE, TRUE)]
    /\ UNCHANGED <<xr_manager_output, kernel_fbs, live, deleted, last_access>>

(***************************************************************************)
(* Specifications                                                          *)
(***************************************************************************)
\* One output name, runs of any length.
Next ==
    \/ VirtualOutputInit
    \/ PostScreenInit
    \/ ManagerSetProperty(CreatePayloads(OneName) \cup SizedPayloads(OneName),
                          DeletePayloads(OneName), 0)
    \/ VirtualSetProperty(ResizeProperties, {"INTEGER"}, 0)
    \/ CrtcSetModeMajor(0)
    \/ Fini

Spec == Init /\ [][Next]_vars

\* Two output names, runs of at most MaxOps requests.
NextPair ==
    \/ VirtualOutputInit
    \/ PostScreenInit
    \/ ManagerSetProperty(CreatePayloads(Names), DeletePayloads(Names), MaxOps)
    \/ VirtualSetProperty(ResizeProperties, {"INTEGER"}, MaxOps)
    \/ CrtcSetModeMajor(MaxOps)
    \/ Fini

SpecPair == Init /\ [][NextPair]_vars

\* Runs of at most MaxOps requests in which the server calls the two
\* initialisation functions again at any time, and a client may name an
\* output like the Manager.
NextLife ==
    \/ VirtualOutputInit
    \/ PostScreenInit
    \/ VirtualOutputInitAgain
    \/ PostScreenInitAgain
    \/ ManagerSetProperty({<<n>> : n \in {"XR-0", XR_MANAGER_OUTPUT_NAME}},
                          {<<n>> : n \in {"XR-0", XR_MANAGER_OUTPUT_NAME}}, MaxOps)
    \/ VirtualSetProperty(ResizeProperties, {"INTEGER"}, MaxOps)
    \/ CrtcSetModeMajor(MaxOps)
    \/ Fini

SpecLife == Init /\ [][NextLife]_vars

\* One output name and every kind of write to a property of the Manager and
\* of the output: any property, either value type, mode lists, create
\* commands with and without a refresh rate.
NextProps ==
    \/ VirtualOutputInit
    \/ PostScreenInit
    \/ ManagerSetProperty(CreatePayloads(OneName) \cup SizedPayloads(OneName)
                              \cup PlainPayloads(OneName),
                          {<<"XR-0">>}, 0)
    \/ VirtualSetProperty(VirtualProperties, ValueTypes, 0)
    \/ Fini

SpecProps == Init /\ [][NextProps]_vars

\* One output name created with the default size, the power controller and
\* the passing of time.
NextPower ==
    \/ VirtualOutputInit
    \/ PostScreenInit
    \/ ManagerSetProperty({<<"XR-0">>}, {<<"XR-0">>}, 0)
    \/ CrtcDpms
    \/ ReadFramebufferId
    \/ Tick
    \/ InactivityTimer
    \/ Fini

SpecPower == Init /\ [][NextPower]_vars

\* The inactivity timer is a recurring timer of the server's event loop: it
\* is not postponed forever while it has an output to put to Standby.
SpecPowerFair == SpecPower /\ WF_vars(InactivityTimer)

\* Two output names, runs of at most MaxOps requests, and the host
\* destroying an output on its own.
NextTeardown ==
    \/ VirtualOutputInit
    \/ PostScreenInit
    \/ ManagerSetProperty({<<n>> : n \in Names}, {<<n>> : n \in Names}, MaxOps)
    \/ HostOutputDestroy
    \/ Fini

SpecTeardown == Init /\ [][NextTeardown]_vars

\* Two output names created with the default size, mode-sets, runs of at
\* most MaxShareOps requests: the outputs share the kernel's framebuffer
\* identifiers.
NextShare ==
    \/ VirtualOutputInit
    \/ PostScreenInit
    \/ ManagerSetProperty({<<n>> : n \in Names}, {<<n>> : n \in Names}, MaxShareOps)
    \/ CrtcSetModeMajor(MaxShareOps)
    \/ Fini

SpecShare == Init /\ [][NextShare]_vars

\* One output name created with the default size, mode-sets, runs of at
\* most MaxOps requests: every environment of the allocator, from a new
\* record and from a record that has or had a buffer.
NextAlloc ==
    \/ VirtualOutputInit
    \/ PostScreenInit
    \/ ManagerSetProperty({<<"XR-0">>}, {<<"XR-0">>}, MaxOps)
    \/ CrtcSetModeMajor(MaxOps)
    \/ Fini

SpecAlloc == Init /\ [][NextAlloc]_vars

\* Two output names created with the default size, deletes and width
\* writes, runs of at most MaxShareOps requests: a request on one output
\* while the other is registered.
NextFrame ==
    \/ VirtualOutputInit
    \/ PostScreenInit
    \/ ManagerSetProperty({<<n>> : n \in Names}, {<<n>> : n \in Names}, MaxShareOps)
    \/ VirtualSetProperty({XR_WIDTH_PROPERTY}, {"INTEGER"}, MaxShareOps)

SpecFrame == Init /\ [][NextFrame]_vars

\* One output name created with the default size, and the callbacks of its
\* CRTC for power mode, cursor and gamma; creates and deletes are limited
\* to MaxOps.
NextCrtc ==
    \/ VirtualOutputInit
    \/ PostScreenInit
    \/ ManagerSetProperty({<<"XR-0">>}, {<<"XR-0">>}, MaxOps)
    \/ CrtcDpms
    \/ CrtcCursor
    \/ CrtcGammaSet

SpecCrtc == Init /\ [][NextCrtc]_vars

(***************************************************************************)
(* Properties                                                              *)
(***************************************************************************)
Registered(list) == {list[k].name : k \in DOMAIN list}

HasBuffer(vout) == vout.framebuffer_bo.gbm \/ vout.framebuffer_bo.dumb

\* The last request was a create command that returned success.
CreateSucceeded == lastOp.op = "create" /\ lastOp.ret

\* The record the last request named has the dimensions the request asked for.
HasRequestedDimensions(vout) ==
    /\ vout # NoVout
    /\ vout.width = lastOp.width
    /\ vout.height = lastOp.height
    /\ vout.refresh = lastOp.refresh

C3_Original ==
    [][lastOp'.op = "create"
       /\ (lastOp'.name = ""
           \/ ~InRange(lastOp'.width, lastOp'.height, lastOp'.refresh))
       => /\ ~lastOp'.ret
          /\ xr_virtual_outputs' = xr_virtual_outputs
          /\ kernel_fbs' = kernel_fbs
          /\ live' = live]_vars

\* C4: a create command whose name is already registered fails, and the
\* registry (so the existing output's width, height, refresh and framebuffer
\* identifier), the kernel's framebuffers and the live resources are after
\* the call what they were before it.
C4_DuplicateCreateRejected ==
    [][lastOp'.op = "create" /\ lastOp'.name \in Registered(xr_virtual_outputs)
       => /\ ~lastOp'.ret
          /\ xr_virtual_outputs' = xr_virtual_outputs
          /\ kernel_fbs' = kernel_fbs
          /\ live' = live]_vars

\* A create was rejected that asked for other dimensions than the registered
\* output of its name has.
C4_Witness ==
    /\ lastOp.op = "create" /\ ~lastOp.ret
    /\ lastOp.name \in Registered(xr_virtual_outputs)
    /\ Lookup(xr_virtual_outputs, lastOp.name).width # lastOp.width
    /\ Lookup(xr_virtual_outputs, lastOp.name).framebuffer_id # 0

\* C5: a delete command naming an output that is not registered returns
\* failure and changes nothing: the registry with every record, the kernel's
\* framebuffers and the live resources stay as they were.
C5_DeleteUnknownIsNoOp ==
    [][lastOp'.op = "delete" /\ lastOp'.name \notin Registered(xr_virtual_outputs)
       => /\ ~lastOp'.ret
          /\ xr_virtual_outputs' = xr_virtual_outputs
          /\ kernel_fbs' = kernel_fbs
          /\ live' = live]_vars

\* A delete of an unregistered name was refused while an output with a
\* buffer is registered.
C5_Witness ==
    /\ lastOp.op = "delete" /\ ~lastOp.ret
    /\ xr_virtual_outputs # <<>>
    /\ kernel_fbs # {}
    /\ lastOp.name \notin Registered(xr_virtual_outputs)

\* C6: after a successful delete(name), lookup(name) reports not found; and a
\* create command for a name that is not registered, deleted before or not,
\* succeeds and registers the name whenever the host hands out the objects
\* of the output.
C6_NameReusable ==
    [][/\ lastOp'.op = "delete" /\ lastOp'.ret
          => Lookup(xr_virtual_outputs', lastOp'.name) = NoVout
       /\ lastOp'.op = "create" /\ lastOp'.name # "" /\ lastOp'.host_ok
          /\ lastOp'.name \notin Registered(xr_virtual_outputs)
          => lastOp'.ret /\ Lookup(xr_virtual_outputs', lastOp'.name) # NoVout]_vars

\* A create succeeded for a name that a delete had removed before.
C6_Witness ==
    /\ CreateSucceeded
    /\ lastOp.name \in deleted
    /\ Lookup(xr_virtual_outputs, lastOp.name) # NoVout

\* The last request, taken in the next state, resized an output to the size
\* (lastOp'.width, lastOp'.height) that differs from the one it had.
ResizedTo(vout) ==
    /\ lastOp'.op \in {"set_property", "set_mode_major"}
    /\ lastOp'.ret
    /\ lastOp'.width # 0
    /\ vout # NoVout
    /\ vout.width # lastOp'.width \/ vout.height # lastOp'.height

\* C7, as stated: a resize of a registered output to a size different from
\* its current one, by a write of the width or height attribute or by a
\* mode-set, leaves the output with a non-zero framebuffer identifier that
\* differs from the one it had before.
C7_Original ==
    [][ResizedTo(Lookup(xr_virtual_outputs, lastOp'.name))
       => LET before == Lookup(xr_virtual_outputs, lastOp'.name)
              after == Lookup(xr_virtual_outputs', lastOp'.name)
          IN  after.framebuffer_id # 0
              /\ after.framebuffer_id # before.framebuffer_id]_vars

\* C8: a resize of a registered output to its current width and height and
\* another refresh changes the stored refresh and the published modes of
\* that record and nothing else: its framebuffer identifier and buffer, the
\* other records, the kernel's framebuffers and the live resources stay.
C8_RefreshOnlyResize ==
    [][\A i \in DOMAIN xr_virtual_outputs :
         LET vout == xr_virtual_outputs[i]
         IN  /\ lastOp'.op = "set_property" /\ lastOp'.ret
             /\ lastOp'.name = vout.name
             /\ lastOp'.width = vout.width /\ lastOp'.height = vout.height
             /\ lastOp'.refresh # vout.refresh
             => /\ xr_virtual_outputs' =
                      [xr_virtual_outputs EXCEPT
                          ![i] = [vout EXCEPT
                                     !.refresh = lastOp'.refresh,
                                     !.rr_modes = SetModesCall(
                                         vout.modes, vout.width, vout.height,
                                         lastOp'.refresh)]]
                /\ kernel_fbs' = kernel_fbs
                /\ live' = live]_vars

\* A refresh write succeeded on an output that has a buffer and still has
\* the width and height it was created with.
C8_Witness ==
    /\ lastOp.op = "set_property" /\ lastOp.ret
    /\ lastOp.refresh = 1000
    /\ LET vout == Lookup(xr_virtual_outputs, lastOp.name)
       IN  /\ vout # NoVout
           /\ vout.refresh = 1000
           /\ vout.width = DefaultWidth /\ vout.height = DefaultHeight
           /\ HasBuffer(vout) /\ vout.framebuffer_id \in kernel_fbs

\* C9: no two records of the registry have the same name.
C9_UniqueNames ==
    \A i, j \in DOMAIN xr_virtual_outputs :
        i # j => xr_virtual_outputs[i].name # xr_virtual_outputs[j].name

\* Two outputs are registered, the second one by the last request.
C9_Witness ==
    /\ Len(xr_virtual_outputs) = 2
    /\ CreateSucceeded

\* C10, as stated: every registered output either has a live buffer object,
\* a surface and a non-zero framebuffer identifier registered with the
\* kernel, or has no buffer object, no surface and the identifier 0.
C10_Original ==
    \A i \in DOMAIN xr_virtual_outputs :
        LET vout == xr_virtual_outputs[i]
        IN  \/ /\ HasBuffer(vout)
               /\ vout.pixmap # "none"
               /\ vout.framebuffer_id # 0
               /\ vout.framebuffer_id \in kernel_fbs
            \/ /\ ~HasBuffer(vout)
               /\ vout.pixmap = "none"
               /\ vout.framebuffer_id = 0

\* Where call stands in the calls of the last request, 0 when it was not made.
CallAt(call) ==
    IF \E k \in DOMAIN lastOp.calls : lastOp.calls[k] = call
    THEN CHOOSE k \in DOMAIN lastOp.calls : lastOp.calls[k] = call
    ELSE 0

\* call1 was made, and call2 after it.
CalledBefore(call1, call2) == 0 < CallAt(call1) /\ CallAt(call1) < CallAt(call2)

DeleteSucceeded == lastOp.op = "delete" /\ lastOp.ret

\* C11, as stated: a successful delete first marks the output disconnected
\* and notifies the listeners, then destroys the framebuffer, then the
\* scanout engine, then the protocol-visible output object, and releases the
\* record last.
C11_Original ==
    DeleteSucceeded
    => /\ CalledBefore("RROutputSetConnection", "RRTellChanged")
       /\ CalledBefore("RRTellChanged", "destroy_offscreen_framebuffer")
       /\ CalledBefore("destroy_offscreen_framebuffer", "xf86CrtcDestroy")
       /\ CalledBefore("xf86CrtcDestroy", "RROutputDestroy")
       /\ CalledBefore("RROutputDestroy", "free")

\* C11, amended: a successful delete first takes the record out of the
\* registry and destroys the framebuffer, then destroys the scanout engine,
\* then marks the output disconnected and notifies the listeners, then
\* destroys the protocol-visible output object, and releases the record last.
C11_DeleteOrder ==
    DeleteSucceeded
    => /\ CalledBefore("unlink", "destroy_offscreen_framebuffer")
       /\ CalledBefore("destroy_offscreen_framebuffer", "xf86CrtcDestroy")
       /\ CalledBefore("xf86CrtcDestroy", "RROutputSetConnection")
       /\ CalledBefore("RROutputSetConnection", "RRTellChanged")
       /\ CalledBefore("RRTellChanged", "RROutputDestroy")
       /\ CalledBefore("RROutputDestroy", "xf86OutputDestroy")
       /\ CalledBefore("xf86OutputDestroy", "free")
       /\ lastOp.calls[Len(lastOp.calls)] = "free"

\* An output with a buffer and a RandR CRTC was deleted.
C11_Witness ==
    /\ DeleteSucceeded
    /\ CallAt("RRCrtcDestroy") # 0
    /\ lastOp.name \notin Registered(xr_virtual_outputs)

\* C12, as stated: after the teardown of the subsystem the registry is empty,
\* the Manager endpoint reference is cleared, and the buffer object, kernel
\* framebuffer, mapping and surface of every output that was registered are
\* released.
C12_Original ==
    lastOp.op = "fini" /\ lastOp.ret
    => /\ xr_virtual_outputs = <<>>
       /\ xr_manager_output = NoManager
       /\ kernel_fbs = {}
       /\ live = [bos |-> 0, maps |-> 0, pixmaps |-> 0]

\* The registered output a request named, before and after the step.
Named(list, name) == Lookup(list, name)

C15_Original ==
    [][/\ lastOp'.op \in {"timer", "dpms", "get_property"} =>
            /\ kernel_fbs' = kernel_fbs
            /\ live' = live
            /\ DOMAIN xr_virtual_outputs' = DOMAIN xr_virtual_outputs
            /\ \A k \in DOMAIN xr_virtual_outputs :
                 xr_virtual_outputs'[k] =
                     [xr_virtual_outputs[k] EXCEPT
                         !.crtc.dpms_mode = xr_virtual_outputs'[k].crtc.dpms_mode]
       /\ lastOp'.op = "get_property" =>
            /\ lastOp'.ret
            /\ lastOp'.value = Named(xr_virtual_outputs, lastOp'.name).framebuffer_id]_vars

\* The Manager endpoint as it has to look while it exists.
ManagerHidden ==
    xr_manager_output.exists =>
        /\ xr_manager_output.name = XR_MANAGER_OUTPUT_NAME
        /\ xr_manager_output.status = "disconnected"
        /\ xr_manager_output.non_desktop
        /\ xr_manager_output.randr_output =>
              /\ xr_manager_output.rr_connection = "disconnected"
              /\ xr_manager_output.rr_non_desktop

ResizeWrite ==
    /\ lastOp.op = "set_property"
    /\ lastOp.prop \in ResizeProperties
    /\ lastOp.vtype = "INTEGER"

\* C17: a write to XR_WIDTH, XR_HEIGHT or XR_REFRESH whose resulting width
\* or height is below 64 or above 16384, or whose resulting refresh rate is
\* below 1 or above 1000, returns FALSE and leaves the registry (size,
\* refresh rate, mode list, framebuffer identifier of every output), the
\* kernel's framebuffers and the live buffers as they were.
C17_OutOfBoundsWriteRejected ==
    [][(ResizeWrite' /\ (\/ lastOp'.width < MinDim \/ lastOp'.width > MaxDim
                         \/ lastOp'.height < MinDim \/ lastOp'.height > MaxDim
                         \/ lastOp'.refresh < MinRefresh
                         \/ lastOp'.refresh > MaxRefresh)) =>
          /\ ~lastOp'.ret
          /\ xr_virtual_outputs' = xr_virtual_outputs
          /\ kernel_fbs' = kernel_fbs
          /\ live' = live]_vars

\* A write of width 63 to an output with a buffer and a size within the
\* bounds has just been rejected.
C17_Witness ==
    /\ ResizeWrite
    /\ lastOp.prop = XR_WIDTH_PROPERTY
    /\ lastOp.width = MinDim - 1
    /\ ~lastOp.ret
    /\ HasBuffer(Named(xr_virtual_outputs, lastOp.name))
    /\ InRange(Named(xr_virtual_outputs, lastOp.name).width,
               Named(xr_virtual_outputs, lastOp.name).height,
               Named(xr_virtual_outputs, lastOp.name).refresh)

\* The modes of a mode list that are within the bounds, as a set.
ListedInBounds(tokens) ==
    {[width |-> tokens[k][1], height |-> tokens[k][2],
      refresh |-> IF Len(tokens[k]) >= 3 THEN tokens[k][3] ELSE DefaultRefresh] :
        k \in {j \in DOMAIN tokens :
                 /\ Len(tokens[j]) >= 2
                 /\ tokens[j][1] >= MinDim /\ tokens[j][1] <= MaxDim
                 /\ tokens[j][2] >= MinDim /\ tokens[j][2] <= MaxDim
                 /\ Len(tokens[j]) >= 3 =>
                      tokens[j][3] >= MinRefresh /\ tokens[j][3] <= MaxRefresh}}

\* C18: a write of a string "<w>:<h>:<r>|..." to XR_MODES returns TRUE and
\* makes the output's mode list exactly the listed modes that are within
\* the bounds.
C18_Original ==
    [][(/\ lastOp'.op = "set_property"
        /\ lastOp'.prop = XR_MODES_PROPERTY
        /\ lastOp'.vtype = "STRING") =>
          LET after == Named(xr_virtual_outputs', lastOp'.name)
          IN  /\ lastOp'.ret
              /\ {after.modes[k] : k \in DOMAIN after.modes}
                    = ListedInBounds(lastOp'.value)]_vars

\* The number n is the one the decimal text names.
IsText(n, text) == n >= 0 /\ Text(n) = text

\* C19: a create command "<name>:<width>:<height>[:<refresh>]" that makes
\* an output makes one with the given name, the given width and height, and
\* the given refresh rate, or 60 when the command has none.
C19_Original ==
    [][(/\ lastOp'.op = "create" /\ lastOp'.ret
        /\ Len(lastOp'.value) >= 3) =>
          LET after == Named(xr_virtual_outputs', lastOp'.value[1])
          IN  /\ after # NoVout
              /\ IsText(after.width, lastOp'.value[2])
              /\ IsText(after.height, lastOp'.value[3])
              /\ IF Len(lastOp'.value) >= 4
                 THEN IsText(after.refresh, lastOp'.value[4])
                 ELSE after.refresh = DefaultRefresh]_vars

\* A write to a property of the Manager has just been handled.
ManagerWrite ==
    lastOp.op \in {"manager_reject", "create", "delete"}

MemSafe(mem) ==
    \A i, j \in DOMAIN mem :
        (i < j /\ mem[i].ev = "free")
            => ~(mem[j].obj = mem[i].obj /\ mem[j].of = mem[i].of)

\* C21: in a create command with its rollback paths, a delete command, the
\* destruction of an output by the host and the teardown, every allocated
\* object of an output (driver_private, the record, its name, its mode
\* list) is released at most once and never read after its release.
C21_Original == MemSafe(lastOp.mem)

\* The framebuffer of a registered output that has a buffer: the identifier
\* its record holds is registered with the kernel.
OwnsFramebuffer(vout) ==
    HasBuffer(vout) /\ vout.framebuffer_id # 0 /\ vout.framebuffer_id \in kernel_fbs

\* C22: a create command, a mode-set or a delete on one output leaves the
\* framebuffer and the buffer of every other registered output as they
\* were: the framebuffer is still registered, the buffer still live.
C22_Original ==
    [][\A k \in DOMAIN xr_virtual_outputs :
          LET other == xr_virtual_outputs[k]
          IN  (/\ lastOp'.op \in {"create", "set_mode_major", "delete"}
               /\ lastOp'.name # other.name
               /\ OwnsFramebuffer(other))
              => /\ other.framebuffer_id \in kernel_fbs'
                 /\ Lookup(xr_virtual_outputs', other.name).framebuffer_bo
                        = other.framebuffer_bo]_vars

\* C23: a non-zero published FRAMEBUFFER_ID of a registered output equals
\* the framebuffer identifier of its record and is registered with the kernel.
C23_Original ==
    \A k \in DOMAIN xr_virtual_outputs :
        LET vout == xr_virtual_outputs[k]
        IN  vout.prop_fb_id # 0
                => /\ vout.prop_fb_id = vout.framebuffer_id
                   /\ vout.prop_fb_id \in kernel_fbs

\* C24: the buffer of a registered output has the width and height its
\* record stores.
C24_Original ==
    \A k \in DOMAIN xr_virtual_outputs :
        LET vout == xr_virtual_outputs[k]
        IN  HasBuffer(vout)
                => /\ vout.framebuffer_bo.width = vout.width
                   /\ vout.framebuffer_bo.height = vout.height

\* The last request was a mode-set whose mode differed from the record's
\* dimensions and whose reallocation succeeded.
ModeSetReallocated == lastOp.op = "set_mode_major" /\ lastOp.alloc = "ok"

C26_ModeSetAlwaysSucceeds ==
    [][(lastOp'.op = "set_mode_major" /\ <<lastOp'.width, lastOp'.height>> # NoMode)
          => LET old == Lookup(xr_virtual_outputs, lastOp'.name)
                 new == Lookup(xr_virtual_outputs', lastOp'.name)
                 mode == <<lastOp'.width, lastOp'.height>>
             IN  /\ lastOp'.ret
                 /\ new.crtc.mode = mode
                 /\ new.crtc.x = Placement(mode).x
                 /\ new.crtc.y = Placement(mode).y
                 /\ new.crtc.rotation = Placement(mode).rotation
                 /\ lastOp'.alloc = "failed" => new.prop_fb_id = old.prop_fb_id]_vars

\* A mode-set to 2560x1080 failed to reallocate: the CRTC reports the new
\* mode and position while FRAMEBUFFER_ID still publishes the identifier of
\* the framebuffer the mode-set has removed.
C26_Witness ==
    /\ lastOp.op = "set_mode_major" /\ lastOp.alloc = "failed" /\ lastOp.ret
    /\ LET vout == Lookup(xr_virtual_outputs, lastOp.name)
       IN  /\ vout.crtc.mode = <<2560, 1080>>
           /\ vout.crtc.x = 1920 /\ vout.crtc.rotation = "Rotate_90"
           /\ vout.width = 1920
           /\ vout.prop_fb_id # 0 /\ vout.prop_fb_id \notin kernel_fbs

\* The allocator call of the last request, a create command or a mode-set:
\* the record, the kernel's framebuffers and the live objects it started
\* from (for a mode-set those the teardown of the old buffer left), and
\* whether the request's outcome is the one the allocator has in
\* environment env.
Nobody == [bos |-> 0, fbs |-> 0, pixmaps |-> 0]

AllocStart ==
    IF lastOp'.op = "create"
    THEN [vout |-> Lookup(xr_virtual_outputs', lastOp'.name),
          fbs |-> kernel_fbs, live |-> live]
    ELSE LET d == drmmode_xr_destroy_offscreen_framebuffer(
                      Lookup(xr_virtual_outputs, lastOp'.name), kernel_fbs, live)
         IN  [vout |-> d.vout, fbs |-> d.fbs, live |-> d.live]

AllocRan == lastOp.op \in {"create", "set_mode_major"} /\ lastOp.alloc # "none"

Explained(env, start, new) ==
    LET a == drmmode_xr_create_offscreen_framebuffer(
                 start.vout, lastOp'.width, lastOp'.height,
                 start.fbs, start.live, env)
    IN  /\ a.ok = (lastOp'.alloc = "ok")
        /\ a.vout.framebuffer_bo = new.framebuffer_bo
        /\ a.vout.framebuffer_id = new.framebuffer_id
        /\ a.vout.pixmap = new.pixmap
        /\ a.fbs = kernel_fbs'
        /\ a.live = live'

\* C27: in the resize of a mode-set the old buffer is destroyed (pixmap,
\* kernel framebuffer, buffer object) before the new one is built: at no
\* moment of the mode-set does the output own two buffer objects, two
\* registered framebuffers or two pixmaps, in whichever environment the
\* allocator ran.
C27_DestroyBeforeCreate ==
    [][(lastOp'.op = "set_mode_major" /\ AllocRan')
          => LET old == Lookup(xr_virtual_outputs, lastOp'.name)
                 new == Lookup(xr_virtual_outputs', lastOp'.name)
                 mode == <<lastOp'.width, lastOp'.height>>
                 start == AllocStart
             IN  \A env \in AllocEnvs(start.fbs) :
                     Explained(env, start, new)
                         => LET peak == PeakOwned(Owned(old, kernel_fbs),
                                                  SetModeCalls(old, mode, env))
                            IN  /\ peak.bos <= 1
                                /\ peak.fbs <= 1
                                /\ peak.pixmaps <= 1]_vars

\* A mode-set on an output whose framebuffer was published has destroyed
\* the old buffer and failed to build the new one after it had registered
\* its framebuffer: the output owns no buffer and no framebuffer now.
C27_Witness ==
    /\ lastOp.op = "set_mode_major" /\ lastOp.alloc = "failed"
    /\ LET vout == Lookup(xr_virtual_outputs, lastOp.name)
       IN  /\ vout.prop_fb_id # 0 /\ ~HasBuffer(vout)
           /\ vout.framebuffer_id # 0
    /\ live = [bos |-> 0, maps |-> 0, pixmaps |-> 0]
    /\ kernel_fbs = {}

\* The last request called the allocator and the allocator returned failure.
AllocFailed == AllocRan /\ lastOp.alloc = "failed"

\* C28: when the allocator returns failure, at whichever step, the record
\* holds no buffer object, no mapping and no pixmap, and the kernel's
\* framebuffers and the live buffer objects, mappings and pixmaps are those
\* from before the call (for a mode-set: from after the teardown of the old
\* buffer that precedes the call).
C28_FailureReleasesAll ==
    [][AllocFailed'
          => LET new == Lookup(xr_virtual_outputs', lastOp'.name)
             IN  /\ ~HasBuffer(new)
                 /\ ~new.framebuffer_bo.mapped
                 /\ new.pixmap = "none"
                 /\ kernel_fbs' = AllocStart.fbs
                 /\ live' = AllocStart.live]_vars

\* A create command whose allocation failed after the import had registered
\* framebuffer 1 (the record still says so): no buffer object, mapping,
\* pixmap or framebuffer of it is left.
C28_Witness ==
    /\ AllocFailed /\ lastOp.op = "create"
    /\ live = [bos |-> 0, maps |-> 0, pixmaps |-> 0]
    /\ kernel_fbs = {}
    /\ LET vout == Lookup(xr_virtual_outputs, lastOp.name)
       IN  ~HasBuffer(vout) /\ vout.framebuffer_id = 1 /\ vout.pixmap = "none"

\* C29: when the allocator has a GBM buffer and binding it to the pixmap as
\* an EGL texture fails, it succeeds with a CPU-mapped buffer of the
\* requested dimensions: a dumb buffer, imported, mapped, with a pixmap
\* whose header points at the mapping.
C29_Original ==
    [][(AllocRan' /\ lastOp'.alloc = "ok")
          => LET vout == Lookup(xr_virtual_outputs', lastOp'.name)
                 start == AllocStart
             IN  \A env \in AllocEnvs(start.fbs) :
                     (env.gbm_ok /\ ~env.egl_ok /\ Explained(env, start, vout))
                         => /\ vout.framebuffer_bo.dumb /\ ~vout.framebuffer_bo.gbm
                            /\ vout.framebuffer_bo.mapped
                            /\ vout.framebuffer_bo.width = lastOp'.width
                            /\ vout.framebuffer_bo.height = lastOp'.height
                            /\ vout.framebuffer_id \in kernel_fbs'
                            /\ vout.pixmap = "cpu"]_vars

TornDown ==
    \/ lastOp.op = "delete" /\ lastOp.ret
    \/ lastOp.op = "set_mode_major" /\ lastOp.alloc # "none"

\* The releases of a teardown come in the order pixmap, kernel framebuffer,
\* buffer object (which unmaps a mapped buffer and frees it).
InTeardownOrder(calls) ==
    \A i, j \in DOMAIN calls :
        i < j => \/ calls[i] = "DestroyPixmap" /\ calls[j] # "DestroyPixmap"
                 \/ calls[i] = "drmModeRmFB" /\ calls[j] = "drmmode_bo_destroy"

\* C31: the teardown releases the pixmap first, then the kernel
\* framebuffer, then the mapping and the buffer object; afterwards the
\* record holds identifier 0, no pixmap and no buffer; on a record without
\* a buffer it releases nothing and changes neither the kernel's
\* framebuffers nor the live objects.
C31_Original ==
    [][TornDown'
          => LET old == Lookup(xr_virtual_outputs, lastOp'.name)
                 d == drmmode_xr_destroy_offscreen_framebuffer(old, kernel_fbs, live)
             IN  /\ InTeardownOrder(DestroyCalls(old))
                 /\ d.vout.framebuffer_id = 0
                 /\ d.vout.pixmap = "none"
                 /\ ~HasBuffer(d.vout) /\ ~d.vout.framebuffer_bo.mapped
                 /\ ~HasBuffer(old)
                        => /\ DestroyCalls(old) = <<>>
                           /\ d.fbs = kernel_fbs
                           /\ d.live = live]_vars

\* The registered records that hold a buffer object.
BufferHolders ==
    {k \in DOMAIN xr_virtual_outputs : HasBuffer(xr_virtual_outputs[k])}

\* C32: while the driver runs, between requests, every live buffer object
\* of a virtual CRTC belongs to exactly one registered record and every
\* kernel framebuffer is the framebuffer of a registered record: nothing
\* of an output outlives its record, also after the host has destroyed the
\* output through the destroy callback.
C32_Original ==
    Running
    => /\ live.bos = Cardinality(BufferHolders)
       /\ \A id \in kernel_fbs :
             \E k \in BufferHolders : xr_virtual_outputs[k].framebuffer_id = id

\* The changes of the registry list the request of a step makes, and the
\* list they leave.
RegistryChanges ==
    CASE lastOp'.op = "create" /\ lastOp'.ret ->
            CreateRegistry(xr_virtual_outputs, lastOp'.name, "none")
      [] lastOp'.op = "create" /\ ~lastOp'.ret /\ lastOp'.mem # <<>> ->
            CreateRegistry(xr_virtual_outputs, lastOp'.name, "crtc")
      [] lastOp'.op = "delete" ->
            DeleteRegistry(xr_virtual_outputs, lastOp'.name)
      [] lastOp'.op = "fini" ->
            FiniRegistry(xr_virtual_outputs, xr_virtual_outputs)
      [] OTHER -> [list |-> xr_virtual_outputs, events |-> <<>>]

\* C33: while a create, a delete or the teardown loop is in progress,
\* nothing but the operation itself adds or removes a registry entry; the
\* destroy callback the host runs from inside the operation changes nothing.
C33_Original ==
    [][lastOp'.op \in {"create", "delete", "fini"}
          => \A i \in DOMAIN RegistryChanges.events :
                RegistryChanges.events[i].by = lastOp'.op]_vars

\* C34: after a successful create with valid dimensions, the RandR CRTC of
\* the new output is enabled with a mode of the requested width and height,
\* whether or not that size is one of the common resolutions.
C34_Original ==
    /\ lastOp.op = "create" /\ lastOp.ret
    /\ InRange(lastOp.width, lastOp.height, lastOp.refresh)
    => LET vout == Lookup(xr_virtual_outputs, lastOp.name)
       IN  vout.crtc.randr_crtc
           => vout.crtc.randr_mode = <<lastOp.width, lastOp.height>>

\* Where call stands in calls, 0 when it is not among them.
Position(calls, call) ==
    IF \E k \in DOMAIN calls : calls[k] = call
    THEN CHOOSE k \in DOMAIN calls :
             calls[k] = call /\ \A j \in 1..(k - 1) : calls[j] # call
    ELSE 0

\* The host failures under which the create of a step ends as it did.
CreateFailures ==
    {fail \in HostFailures :
        /\ lastOp'.host_ok = (fail = "none")
        /\ lastOp'.mem = CreateRollback(lastOp'.name, fail)}

\* C35: a create tells the protocol listeners of the new output only once
\* the CRTC exists, the buffer is allocated and the record is registered,
\* and a create that fails and rolls back tells them nothing.
C35_Original ==
    [][(/\ lastOp'.op = "create" /\ lastOp'.name # ""
        /\ Lookup(xr_virtual_outputs, lastOp'.name) = NoVout)
          => \A fail \in CreateFailures :
                LET calls == CreateCalls(fail)
                    told == Position(calls, "RRTellChanged")
                IN  told # 0
                    => /\ lastOp'.ret
                       /\ Position(calls, "drmmode_xr_create_virtual_crtc") < told
                       /\ Position(calls, "create_offscreen_framebuffer") < told
                       /\ Position(calls, "link") < told]_vars

\* C36: every registered virtual output reports Connected and carries the
\* VIRTUAL_OUTPUT marker, with or without a RandR CRTC; the XR-Manager
\* output never carries the marker.
C36_Original ==
    /\ \A k \in DOMAIN xr_virtual_outputs :
          /\ xr_virtual_outputs[k].status = "connected"
          /\ xr_virtual_outputs[k].rr_connection = "connected"
          /\ xr_virtual_outputs[k].virtual_marker
    /\ xr_manager_output.exists
          => "VIRTUAL_OUTPUT" \notin xr_manager_output.props

\* C37: no registered virtual output bears the name of the XR-Manager
\* output.
C37_Original ==
    \A k \in DOMAIN xr_virtual_outputs :
        xr_virtual_outputs[k].name # XR_MANAGER_OUTPUT_NAME

\* The number of records a successful request adds to the registry.
Growth(op) ==
    CASE op = "create" -> 1
      [] op = "delete" -> -1
      [] OTHER -> 0

\* C38: a successful create, delete or resize of the output named n leaves
\* the record of every other registered output as it was, and changes the
\* number of registered outputs by +1, -1 and 0.
C38_FrameOfOthers ==
    [][(/\ lastOp'.ret
        /\ \/ lastOp'.op \in {"create", "delete"}
           \/ lastOp'.op = "set_property" /\ lastOp'.prop \in ResizeProperties)
          => /\ Len(xr_virtual_outputs')
                    = Len(xr_virtual_outputs) + Growth(lastOp'.op)
             /\ \A m \in Registered(xr_virtual_outputs) \ {lastOp'.name} :
                    Lookup(xr_virtual_outputs', m) = Lookup(xr_virtual_outputs, m)
             /\ \A m \in Registered(xr_virtual_outputs') \ {lastOp'.name} :
                    m \in Registered(xr_virtual_outputs)]_vars

\* A delete or a resize of one output has gone through while the other
\* output is registered.
C38_Witness ==
    /\ lastOp.ret
    /\ \/ lastOp.op = "delete"
       \/ lastOp.op = "set_property" /\ lastOp.prop \in ResizeProperties
    /\ Registered(xr_virtual_outputs) \ {lastOp.name} # {}

\* What a CRTC callback must leave alone: the Manager, the kernel's
\* framebuffers, the live buffers, and of every record everything but the
\* CRTC.
OutsideCrtcUnchanged ==
    /\ UNCHANGED <<xr_manager_output, kernel_fbs, live>>
    /\ Len(xr_virtual_outputs') = Len(xr_virtual_outputs)
    /\ \A k \in DOMAIN xr_virtual_outputs :
          [xr_virtual_outputs'[k] EXCEPT !.crtc = xr_virtual_outputs[k].crtc]
              = xr_virtual_outputs[k]

\* The colour tables of a CRTC.
Luts(crtc) == <<crtc.lut_r, crtc.lut_g, crtc.lut_b>>

\* C39: on a virtual CRTC the cursor callbacks change nothing and show and
\* load report success; a power-mode call changes only the stored power
\* mode of that CRTC; a gamma_set changes only the colour tables of that
\* CRTC, in their first 256 entries at most; none of them changes the
\* registry, a buffer or a framebuffer identifier.
C39_CrtcCallbacksFrame ==
    [][lastOp'.op \in CursorOps \cup {"dpms", "gamma_set"}
          => LET k == FirstNamed(xr_virtual_outputs, lastOp'.name)
                 old == xr_virtual_outputs[k].crtc
                 new == xr_virtual_outputs'[k].crtc
             IN  /\ OutsideCrtcUnchanged
                 /\ \A j \in DOMAIN xr_virtual_outputs \ {k} :
                        xr_virtual_outputs'[j] = xr_virtual_outputs[j]
                 /\ lastOp'.op \in CursorOps
                        => /\ new = old
                           /\ lastOp'.op \in {"show_cursor", "load_cursor_argb"}
                                  => lastOp'.ret
                 /\ lastOp'.op = "dpms"
                        => /\ new.dpms_mode \in DpmsModes
                           /\ [new EXCEPT !.dpms_mode = old.dpms_mode] = old
                 /\ lastOp'.op = "gamma_set"
                        => /\ [new EXCEPT !.lut_r = old.lut_r, !.lut_g = old.lut_g,
                                          !.lut_b = old.lut_b] = old
                           /\ \A c \in 1..3 :
                                 LET size == lastOp'.value[2]
                                     n == IF size < LutSize THEN size ELSE LutSize
                                     ramp == Ramp(lastOp'.value[1][c], size)
                                     was == Luts(old)[c]
                                 IN  /\ Len(Luts(new)[c]) <= LutSize
                                     /\ Luts(new)[c]
                                          = SubSeq(ramp, 1, n)
                                            \o SubSeq(was, n + 1, Len(was))]_vars

\* A gamma_set with a ramp of more than 256 entries has acted on a CRTC
\* whose tables were written before, and the output has its buffer.
C39_Witness ==
    /\ lastOp.op = "gamma_set"
    /\ lastOp.value[2] > LutSize
    /\ LET vout == Lookup(xr_virtual_outputs, lastOp.name)
       IN  /\ HasBuffer(vout)
           /\ Len(vout.crtc.lut_r) = LutSize
           /\ vout.crtc.dpms_mode # "On"

====
